---- MODULE Spec2Model ----
(***************************************************************************)
(* Budget-gated lead-generation pipeline: cost ledger, scoring engine,     *)
(* stakeholder identification and outreach generation.                     *)
(*                                                                         *)
(* Money is counted in cents (0.01 USD), scores in tenths of a point.      *)
(* Python floats are modelled as exact decimals in these units.            *)
(***************************************************************************)
EXTENDS Integers, Sequences, FiniteSets, TLC

VARIABLES
    ledger,           \* token_usage.json: sequence of usage records
    budget_check,     \* result of the last is_budget_available call, or NoCheck
    criterion_scores, \* scores handed to calculate_lead_score (criterion -> tenths)
    lead_score,       \* its result in tenths, or NotScored
    lead_priority,    \* get_lead_priority of that result, or ""
    probe,            \* a pair of scores and their get_lead_priority tiers
    pc,               \* position of the pipeline run
    companies_dir,    \* data/companies: file stem -> company JSON
    stakeholders_dir, \* data/stakeholders: file stem -> stakeholder JSON
    outreach_dir,     \* data/outreach: file stem -> outreach message JSON
    companies,        \* run_stakeholder_identification: the loaded companies
    all_stakeholders, \* run_stakeholder_identification: stakeholders in memory
    returned,         \* what the last identify_stakeholders_for_company call returned
    stakeholders,     \* run_outreach_generation: the loaded stakeholders
    outreach_messages,\* run_outreach_generation: messages in memory
    loop_index,       \* index of the running loop
    usage_reports,    \* number of files in data/usage_reports
    content,          \* generate_outreach_message: content of the last reply
    events_dir,       \* data/events: file stem -> gathering JSON
    associations_dir, \* data/associations: file stem -> gathering JSON
    gatherings,       \* the gatherings a stage holds in memory
    analyzed_gatherings, \* run_event_association_research: the analyzed ones
    all_companies,    \* run_company_analysis: companies discovered so far
    unique_companies, \* run_company_analysis: the de-duplicated companies
    qualified_companies, \* run_company_analysis: the companies after qualification
    attempt,          \* call_openai_api / query_perplexity: loop variable
    retry_delay,      \* seconds the next retry waits
    sleeps,           \* the time.sleep calls made so far, in seconds
    call_result,      \* what the call returned, or NoResult
    request,          \* the provider and the module argument of the call
    error,            \* the exception e held by the except block, "" for none
    dirs_read         \* the data directories the running stage has read

ledgerVars == <<ledger, budget_check>>
scoreVars == <<criterion_scores, lead_score, lead_priority, probe>>

upVars == <<events_dir, associations_dir, gatherings, analyzed_gatherings, all_companies,
            unique_companies, qualified_companies>>
callVars == <<attempt, retry_delay, sleeps, call_result, request, error>>

pipeVars == <<pc, companies_dir, stakeholders_dir, outreach_dir, companies,
              all_stakeholders, returned, stakeholders, outreach_messages, loop_index,
              usage_reports>>

vars == <<ledger, budget_check, criterion_scores, lead_score, lead_priority, probe,
          pc, companies_dir, stakeholders_dir, outreach_dir, companies,
          all_stakeholders, returned, stakeholders, outreach_messages, loop_index,
          usage_reports, content, events_dir, associations_dir, gatherings,
          analyzed_gatherings,
          all_companies, unique_companies, qualified_companies, attempt,
          retry_delay, sleeps, call_result, request, error, dirs_read>>

(***************************************************************************)
(* config/config.py                                                        *)
(***************************************************************************)

\* "$200 total" of cost_tracker.py, in cents
TotalBudget == 20000

\* BUDGET_ALLOCATION, in percent of the total
BUDGET_ALLOCATION ==
    [event_research |-> 10,
     company_analysis |-> 25,
     stakeholder_identification |-> 15,
     outreach_generation |-> 30,
     buffer |-> 20]

AllocationKeys == DOMAIN BUDGET_ALLOCATION

\* BUDGET_ALLOCATION.get(module, 0.0)
AllocationGet(module) ==
    IF module \in AllocationKeys THEN BUDGET_ALLOCATION[module] ELSE 0

(***************************************************************************)
(* src/utils/cost_tracker.py                                               *)
(***************************************************************************)

RECURSIVE SumCost(_)
\* df["total_cost_usd"].sum()
SumCost(records) ==
    IF records = <<>> THEN 0
    ELSE Head(records).total_cost_usd + SumCost(Tail(records))

\* df.groupby("module") ... ["total_cost_usd"]: the modules that have a row
UsageModules(records) == {records[i].module : i \in DOMAIN records}

\* get_current_usage(): total cost and cost per module present in the ledger
get_current_usage(records) ==
    [total_cost_usd |-> SumCost(records),
     usage_by_module |->
        [m \in UsageModules(records) |->
            SumCost(SelectSeq(records, LAMBDA r : r.module = m))]]

\* current_usage["usage_by_module"].get(m, {}).get("total_cost_usd", 0.0)
ModuleSpent(current_usage, m) ==
    IF m \in DOMAIN current_usage.usage_by_module
    THEN current_usage.usage_by_module[m]
    ELSE 0

RECURSIVE SumOver(_, _)
\* sum([... for m in BUDGET_ALLOCATION.keys() if m != "buffer"])
SumOver(current_usage, modules) ==
    IF modules = {} THEN 0
    ELSE LET m == CHOOSE x \in modules : TRUE
         IN ModuleSpent(current_usage, m) + SumOver(current_usage, modules \ {m})

\* is_budget_available answering from a counter that misses the last record
is_budget_available_cached(records, module, estimated_cost) ==
    LET seen == IF records = <<>> THEN records
                ELSE SubSeq(records, 1, Len(records) - 1)
        current_usage == get_current_usage(seen)
        module_budget == (TotalBudget * AllocationGet(module)) \div 100
        module_spent == ModuleSpent(current_usage, module)
        buffer_allocation == (TotalBudget * AllocationGet("buffer")) \div 100
        buffer_used == current_usage.total_cost_usd
                         - SumOver(current_usage, AllocationKeys \ {"buffer"})
        buffer_remaining == buffer_allocation - buffer_used
    IN IF module_spent + estimated_cost <= module_budget
       THEN TRUE
       ELSE buffer_remaining >= estimated_cost

\* is_budget_available with the own-allocation comparison made strict
is_budget_available_strict(records, module, estimated_cost) ==
    LET current_usage == get_current_usage(records)
        module_budget == (TotalBudget * AllocationGet(module)) \div 100
        module_spent == ModuleSpent(current_usage, module)
        buffer_allocation == (TotalBudget * AllocationGet("buffer")) \div 100
        buffer_used == current_usage.total_cost_usd
                         - SumOver(current_usage, AllocationKeys \ {"buffer"})
        buffer_remaining == buffer_allocation - buffer_used
    IN IF module_spent + estimated_cost < module_budget
       THEN TRUE
       ELSE buffer_remaining >= estimated_cost

\* is_budget_available(module, estimated_cost) read against the ledger
is_budget_available(records, module, estimated_cost) ==
    LET current_usage == get_current_usage(records)
        module_budget == (TotalBudget * AllocationGet(module)) \div 100
        module_spent == ModuleSpent(current_usage, module)
        buffer_allocation == (TotalBudget * AllocationGet("buffer")) \div 100
        buffer_used == current_usage.total_cost_usd
                         - SumOver(current_usage, AllocationKeys \ {"buffer"})
        buffer_remaining == buffer_allocation - buffer_used
    IN IF module_spent + estimated_cost <= module_budget
       THEN TRUE
       ELSE buffer_remaining >= estimated_cost

(***************************************************************************)
(* Cost ledger as a component: budget checks followed by logged calls      *)
(***************************************************************************)

\* longest ledger explored
MaxLedger == 5

\* module names passed to the ledger: two pipeline stages and the default
\* module argument "general" of call_openai_api
LedgerModules == {"outreach_generation", "stakeholder_identification", "general"}

\* estimated and recorded costs explored, in cents
LedgerCosts == {4000, 6000}

NoCheck == [module |-> "", estimated_cost |-> 0, available |-> FALSE]

NotScored == -1

NoProbe == [a |-> 0, b |-> 0, done |-> FALSE, priority_a |-> "", priority_b |-> ""]

NoReturn == [company_id |-> "", raised |-> FALSE, stakeholders |-> <<>>]

NoUsage == [module |-> "", total_cost_usd |-> 0]

NoResult == [content |-> "", raised |-> FALSE, usage |-> NoUsage]

NoRequest == [provider |-> "", module |-> "", model |-> ""]

\* config.LLM_CONFIG: the model of each configured tier that a stage reads
LLM_CONFIG ==
    [event_research |-> [relevance_analysis |-> [model |-> "gpt-4-turbo"]],
     company_analysis |-> [initial_screening |-> [model |-> "gpt-3.5-turbo"]]]

\* qualify_company: model_config["model"]
QualificationModel(company) ==
    IF company.qualification_score >= 60 THEN "gpt-4-turbo"
    ELSE LLM_CONFIG.company_analysis.initial_screening.model

\* identify_stakeholders_for_company: model_config["model"]
StakeholderModel(company) ==
    IF company.lead_priority \in {"exceptional", "high_priority"}
    THEN "gpt-4-turbo" ELSE "gpt-3.5-turbo"

\* generate_outreach_message with the premium model for every stakeholder
OutreachModel_always_premium(stakeholder) == "gpt-4-turbo"

\* generate_outreach_message: model_config["model"]
OutreachModel(stakeholder) ==
    IF stakeholder.priority = "high" THEN "gpt-4-turbo" ELSE "gpt-3.5-turbo"

\* the arguments of a call_openai_api call
OpenAIRequest(module, model) ==
    [provider |-> "openai", module |-> module, model |-> model]

\* no upstream stage and no call running
RestIdle ==
    /\ content = ""
    /\ events_dir = <<>>
    /\ associations_dir = <<>>
    /\ gatherings = <<>>
    /\ analyzed_gatherings = <<>>
    /\ all_companies = <<>>
    /\ unique_companies = <<>>
    /\ qualified_companies = <<>>
    /\ attempt = 0
    /\ retry_delay = 0
    /\ sleeps = <<>>
    /\ call_result = NoResult
    /\ request = NoRequest
    /\ error = ""
    /\ dirs_read = {}

\* the pipeline variables at rest: no stage running, empty data directories
PipeIdle ==
    /\ pc = "idle"
    /\ companies_dir = <<>>
    /\ stakeholders_dir = <<>>
    /\ outreach_dir = <<>>
    /\ companies = <<>>
    /\ all_stakeholders = <<>>
    /\ returned = NoReturn
    /\ stakeholders = <<>>
    /\ outreach_messages = <<>>
    /\ loop_index = 0
    /\ usage_reports = 0
    /\ RestIdle

\* the scoring variables at rest
ScoreIdle ==
    /\ criterion_scores = <<>>
    /\ lead_score = NotScored
    /\ lead_priority = ""
    /\ probe = NoProbe

LedgerInit ==
    /\ ledger = <<>>
    /\ budget_check = NoCheck
    /\ ScoreIdle
    /\ PipeIdle

\* a caller asks is_budget_available(module, estimated_cost)
BudgetCheck(module, estimated_cost) ==
    /\ Len(ledger) < MaxLedger
    /\ budget_check' = [module |-> module,
                        estimated_cost |-> estimated_cost,
                        available |-> is_budget_available(ledger, module, estimated_cost)]
    /\ UNCHANGED <<dirs_read, ledger, scoreVars, pipeVars, content, upVars, callVars>>

\* log_token_usage opening the usage file for writing instead of appending
log_token_usage_truncating(records, module, total_cost) ==
    << [module |-> module, total_cost_usd |-> total_cost] >>

\* log_token_usage: the usage record appended to the usage file
log_token_usage(records, module, total_cost) ==
    Append(records, [module |-> module, total_cost_usd |-> total_cost])

\* the approved call is made and logs a cost no larger than the estimate
GatedCall(total_cost) ==
    /\ budget_check.available
    /\ total_cost <= budget_check.estimated_cost
    /\ Len(ledger) < MaxLedger
    /\ ledger' = log_token_usage(ledger, budget_check.module, total_cost)
    /\ budget_check' = NoCheck
    /\ UNCHANGED <<dirs_read, scoreVars, pipeVars, content, upVars, callVars>>

\* the keys of the dictionary get_current_usage returns: the early returns
\* for a missing file and for a file without records, and the full result
CurrentUsageKeys(records) ==
    IF records = <<>>
    THEN {"total_cost_usd", "budget_used_percentage", "budget_remaining_usd",
          "usage_by_model", "usage_by_module"}
    ELSE {"total_cost_usd", "budget_used_percentage", "budget_remaining_usd",
          "usage_by_model", "usage_by_module", "budget_allocation"}

\* the keys of current_usage that log_usage_report subscripts
ReportKeys ==
    {"total_cost_usd", "budget_remaining_usd", "budget_used_percentage",
     "usage_by_model", "usage_by_module", "budget_allocation"}

\* log_usage_report raises KeyError when a key it subscripts is missing
UsageReportRaises(records) == ~(ReportKeys \subseteq CurrentUsageKeys(records))

\* usage reports written in one exploration of the ledger
MaxReports == 1

\* log_usage_report(): the snapshot is written, or the KeyError propagates
LogUsageReport ==
    /\ usage_reports < MaxReports
    /\ IF UsageReportRaises(ledger)
       THEN /\ error' = "KeyError: 'budget_allocation'"
            /\ UNCHANGED usage_reports
       ELSE /\ usage_reports' = usage_reports + 1
            /\ UNCHANGED error
    /\ UNCHANGED <<dirs_read, ledgerVars, scoreVars, content, upVars, attempt,
                   retry_delay, sleeps, call_result, request, pc, companies_dir,
                   stakeholders_dir, outreach_dir, companies, all_stakeholders,
                   returned, stakeholders, outreach_messages, loop_index>>

LedgerNext ==
    \/ \E m \in LedgerModules, c \in LedgerCosts : BudgetCheck(m, c)
    \/ \E c \in LedgerCosts : GatedCall(c)
    \/ LogUsageReport

SpecLedger == LedgerInit /\ [][LedgerNext]_vars

\* C1: along any sequence of approved calls that each record no more than
\* their estimate, the total spend in the ledger never exceeds the total
\* budget of 200 USD.
C1_TotalNeverExceedsBudget == SumCost(ledger) <= TotalBudget

RECURSIVE C2_Spend(_, _)
\* the spend recorded at the ledger positions idx
C2_Spend(records, idx) ==
    IF idx = {} THEN 0
    ELSE LET i == CHOOSE x \in idx : TRUE
         IN records[i].total_cost_usd + C2_Spend(records, idx \ {i})

C2_SpendOf(records, modules) ==
    C2_Spend(records, {i \in DOMAIN records : records[i].module \in modules})

C2_WithinOwn(records, module, cost) ==
    100 * (C2_SpendOf(records, {module}) + cost)
        <= TotalBudget * (IF module \in DOMAIN BUDGET_ALLOCATION
                          THEN BUDGET_ALLOCATION[module] ELSE 0)

C2_BufferRemaining(records) ==
    (TotalBudget * BUDGET_ALLOCATION["buffer"]) \div 100
      - (C2_Spend(records, DOMAIN records)
           - C2_SpendOf(records, DOMAIN BUDGET_ALLOCATION \ {"buffer"}))

\* C2: a budget check answers true exactly when the module's spend plus the
\* cost fits the module's allocation (0 for an unlisted module), or else the
\* remaining buffer covers the cost; spend within the own allocation is
\* approved with the buffer exhausted, and a module whose own allocation is
\* insufficient is approved while buffer remains.
C2_BudgetDecision ==
    budget_check # NoCheck =>
        LET m == budget_check.module
            c == budget_check.estimated_cost
        IN /\ budget_check.available
                <=> (C2_WithinOwn(ledger, m, c) \/ C2_BufferRemaining(ledger) >= c)
           /\ C2_WithinOwn(ledger, m, c) => budget_check.available
           /\ (~C2_WithinOwn(ledger, m, c) /\ C2_BufferRemaining(ledger) >= c)
                => budget_check.available

\* a check approved within the module's own allocation although the buffer
\* is used up
C2_Witness ==
    /\ budget_check # NoCheck
    /\ budget_check.available
    /\ C2_WithinOwn(ledger, budget_check.module, budget_check.estimated_cost)
    /\ C2_BufferRemaining(ledger) <= 0

\* a check approved from the buffer, the own allocation being insufficient
C2_WitnessBuffer ==
    /\ budget_check # NoCheck
    /\ budget_check.available
    /\ ~C2_WithinOwn(ledger, budget_check.module, budget_check.estimated_cost)
    /\ C2_BufferRemaining(ledger) >= budget_check.estimated_cost

\* a denied check
C2_WitnessDenied ==
    /\ budget_check # NoCheck
    /\ ~budget_check.available

(***************************************************************************)
(* src/utils/lead_scoring.py with LEAD_SCORING of config/config.py         *)
(***************************************************************************)

\* LEAD_SCORING["criteria"][c]["weight"], in hundredths, in declaration order
CriteriaOrder ==
    <<"industry_relevance", "product_fit", "decision_maker_access",
      "current_engagement", "market_presence">>

Criteria == {CriteriaOrder[i] : i \in DOMAIN CriteriaOrder}

Weights ==
    [industry_relevance |-> 30,
     product_fit |-> 25,
     decision_maker_access |-> 20,
     current_engagement |-> 15,
     market_presence |-> 10]

\* LEAD_SCORING["thresholds"], in tenths
Thresholds ==
    [minimum_qualification |-> 60, high_priority |-> 80, exceptional |-> 90]

\* round(x, 1) for x = num / den tenths: nearest tenth, ties to the even one
Round1(num, den) ==
    LET q == num \div den
        r == num % den
    IN IF 2 * r < den THEN q
       ELSE IF 2 * r > den THEN q + 1
       ELSE IF q % 2 = 0 THEN q ELSE q + 1

RECURSIVE WeightedSum(_, _)
\* the loop over weights.items(): sum of scores[criterion] * weight over the
\* criteria present in scores, from position i on
WeightedSum(scores, i) ==
    IF i > Len(CriteriaOrder) THEN 0
    ELSE LET criterion == CriteriaOrder[i]
         IN (IF criterion \in DOMAIN scores
             THEN scores[criterion] * Weights[criterion] ELSE 0)
            + WeightedSum(scores, i + 1)

RECURSIVE WeightApplied(_, _)
\* total_weight_applied of the same loop
WeightApplied(scores, i) ==
    IF i > Len(CriteriaOrder) THEN 0
    ELSE LET criterion == CriteriaOrder[i]
         IN (IF criterion \in DOMAIN scores THEN Weights[criterion] ELSE 0)
            + WeightApplied(scores, i + 1)

\* calculate_lead_score without the renormalisation by the applied weight
calculate_lead_score_unnormalised(scores) ==
    LET weighted_score == WeightedSum(scores, 1)
        total_weight_applied == WeightApplied(scores, 1)
    IN IF total_weight_applied > 0
       THEN Round1(weighted_score * 10, 100)
       ELSE Round1(weighted_score, 100)

\* calculate_lead_score(scores): scores and result in tenths.
\* weighted_score / total_weight_applied * 10.0, rounded to one decimal
calculate_lead_score(scores) ==
    LET weighted_score == WeightedSum(scores, 1)
        total_weight_applied == WeightApplied(scores, 1)
    IN IF total_weight_applied > 0
       THEN Round1(weighted_score * 10, total_weight_applied)
       ELSE Round1(weighted_score, 100)

\* get_lead_priority with the high_priority threshold exclusive
get_lead_priority_exclusive(score) ==
    IF score >= Thresholds["exceptional"] THEN "exceptional"
    ELSE IF score > Thresholds["high_priority"] THEN "high_priority"
    ELSE IF score >= Thresholds["minimum_qualification"] THEN "qualified"
    ELSE "unqualified"

\* get_lead_priority(score), score in tenths
get_lead_priority(score) ==
    IF score >= Thresholds["exceptional"] THEN "exceptional"
    ELSE IF score >= Thresholds["high_priority"] THEN "high_priority"
    ELSE IF score >= Thresholds["minimum_qualification"] THEN "qualified"
    ELSE "unqualified"

(***************************************************************************)
(* Scoring engine applied to a drawn score map                             *)
(***************************************************************************)

\* criterion scores explored, in tenths (0-10 scale)
ScoreSamples == {0, 50, 60, 70, 75, 80, 90, 100}

\* every map from a subset of the criteria to a sampled score
ScoreMaps ==
    UNION {[S -> ScoreSamples] : S \in SUBSET Criteria}

ScoreInit ==
    /\ ledger = <<>>
    /\ budget_check = NoCheck
    /\ criterion_scores \in ScoreMaps
    /\ lead_score = NotScored
    /\ lead_priority = ""
    /\ probe = NoProbe
    /\ PipeIdle

\* overall_score = calculate_lead_score(criterion_scores)
CalculateLeadScore ==
    /\ lead_score = NotScored
    /\ lead_score' = calculate_lead_score(criterion_scores)
    /\ UNCHANGED <<dirs_read, ledgerVars, criterion_scores, lead_priority, probe, pipeVars, content, upVars, callVars>>

\* get_lead_priority(overall_score)
GetLeadPriority ==
    /\ lead_score # NotScored
    /\ lead_priority = ""
    /\ lead_priority' = get_lead_priority(lead_score)
    /\ UNCHANGED <<dirs_read, ledgerVars, criterion_scores, lead_score, probe, pipeVars, content, upVars, callVars>>

ScoreNext == CalculateLeadScore \/ GetLeadPriority

SpecScore == ScoreInit /\ [][ScoreNext]_vars

\* C3: for every map of criterion scores in 0..10 over any subset of the
\* five criteria, calculate_lead_score returns a value in [0,10].
C3_ScoreWithinScale ==
    lead_score # NotScored => (0 <= lead_score /\ lead_score <= 100)

ScenarioB ==
    [industry_relevance |-> 90,
     product_fit |-> 80,
     decision_maker_access |-> 70,
     current_engagement |-> 60,
     market_presence |-> 50]

\* C4: on the scenario-B scores under the configured weights,
\* calculate_lead_score yields 7.7 and get_lead_priority of it is "qualified".
C4_ScenarioB ==
    (criterion_scores = ScenarioB /\ lead_priority # "") =>
        (lead_score = 77 /\ lead_priority = "qualified")

\* the score map that gives every criterion of S the score s
Uniform(S, s) == [c \in S |-> s]

\* C5: scoring a strict non-empty subset of the criteria that all carry the
\* same score gives the same result as scoring all five criteria with that
\* score: the criteria left out do not lower the result.
C5_Renormalised ==
    \A s \in ScoreSamples :
        (/\ lead_score # NotScored
         /\ DOMAIN criterion_scores # {}
         /\ DOMAIN criterion_scores # Criteria
         /\ criterion_scores = Uniform(DOMAIN criterion_scores, s))
        => lead_score = calculate_lead_score(Uniform(Criteria, s))

\* three of the five criteria scored 7.0 each, and the result computed
C5_Witness ==
    /\ lead_score # NotScored
    /\ criterion_scores =
         Uniform({"industry_relevance", "product_fit", "market_presence"}, 70)
    /\ lead_score = calculate_lead_score(Uniform(Criteria, 70))

(***************************************************************************)
(* get_lead_priority applied to a drawn pair of scores                     *)
(***************************************************************************)

\* largest probed score, in tenths
MaxProbe == 110

ProbeInit ==
    /\ ledger = <<>>
    /\ budget_check = NoCheck
    /\ criterion_scores = <<>>
    /\ lead_score = NotScored
    /\ lead_priority = ""
    /\ PipeIdle
    /\ \E a \in 0..MaxProbe, b \in 0..MaxProbe :
          probe = [a |-> a, b |-> b, done |-> FALSE,
                   priority_a |-> "", priority_b |-> ""]

\* get_lead_priority on both scores
ProbePriority ==
    /\ ~probe.done
    /\ probe' = [probe EXCEPT !.done = TRUE,
                              !.priority_a = get_lead_priority(probe.a),
                              !.priority_b = get_lead_priority(probe.b)]
    /\ UNCHANGED <<dirs_read, ledgerVars, criterion_scores, lead_score, lead_priority, pipeVars, content, upVars, callVars>>

ProbeNext == ProbePriority

SpecPriority == ProbeInit /\ [][ProbeNext]_vars

\* the tier order unqualified < qualified < high_priority < exceptional
TierRank ==
    [unqualified |-> 0, qualified |-> 1, high_priority |-> 2, exceptional |-> 3]

\* C6: get_lead_priority is monotonic non-decreasing in the score, a score
\* equal to 6.0, 8.0 or 9.0 yields qualified, high_priority or exceptional,
\* and every score below 6.0 yields unqualified.
C6_PriorityMonotonicInclusive ==
    probe.done =>
        /\ probe.a <= probe.b => TierRank[probe.priority_a] <= TierRank[probe.priority_b]
        /\ probe.a = 60 => probe.priority_a = "qualified"
        /\ probe.a = 80 => probe.priority_a = "high_priority"
        /\ probe.a = 90 => probe.priority_a = "exceptional"
        /\ probe.a < 60 => probe.priority_a = "unqualified"

\* the score exactly at the high_priority threshold, next to one just below
C6_Witness ==
    /\ probe.done
    /\ probe.a = 80 /\ probe.priority_a = "high_priority"
    /\ probe.b = 79 /\ probe.priority_b = "qualified"


\* ---------------------------------------------------------------------
\* Stakeholder identification and outreach generation over the data
\* directories.  A directory is a function from file stems to the JSON
\* object of the file.  Fields that no modelled decision reads (a
\* stakeholder's name, department, email, linkedin_url, responsibilities,
\* influence and relevant_benefits; a company's description and industry)
\* are left out of the records.
\* ---------------------------------------------------------------------

\* stems of the files save_company_data wrote: f"{company['id']}.json"
CompanyIds == {"c1", "c2"}

\* what a company file holds besides its id
CompanyShapes ==
    { [name |-> "Acme Signs", lead_priority |-> "exceptional",
       qualification_score |-> 95,
       customer_segment |-> "Large Format Print Providers"],
      [name |-> "Unknown Company", lead_priority |-> "qualified",
       qualification_score |-> 70, customer_segment |-> ""],
      [name |-> "Company-Wide Graphics", lead_priority |-> "high_priority",
       qualification_score |-> 85,
       customer_segment |-> "Fleet Graphics Specialists"] }

CompanyFile(shape, id) ==
    [id |-> id, name |-> shape.name, lead_priority |-> shape.lead_priority,
     qualification_score |-> shape.qualification_score,
     customer_segment |-> shape.customer_segment]

\* The possible contents of data/companies.  run_company_analysis merges
\* the companies of one name before it saves them, so the files of a
\* directory differ in their names.
CompanyDirs ==
    UNION { { [c \in S |-> CompanyFile(f[c], c)] :
                f \in { g \in [S -> CompanyShapes] :
                          \A a, b \in S : a # b => g[a] # g[b] } }
            : S \in SUBSET CompanyIds }

\* the orders in which glob("*.json") may list the files of a directory
GlobOrders(dir) ==
    { o \in [1..Cardinality(DOMAIN dir) -> DOMAIN dir] :
        \A i, j \in DOMAIN o : i # j => o[i] # o[j] }

\* str.startswith
StartsWith(str, prefix) ==
    Len(str) >= Len(prefix) /\ SubSeq(str, 1, Len(prefix)) = prefix

\* company_file.stem[-8:]
Last8(stem) ==
    IF Len(stem) > 8 THEN SubSeq(stem, Len(stem) - 7, Len(stem)) ELSE stem

\* lexicographic order of the two-component sort keys
KeyLess(a, b) == a[1] < b[1] \/ (a[1] = b[1] /\ a[2] < b[2])

RECURSIVE InsertByKey(_, _)
InsertByKey(done, e) ==
    IF done = <<>> THEN <<e>>
    ELSE IF KeyLess(e.key, Head(done).key) THEN <<e>> \o done
    ELSE <<Head(done)>> \o InsertByKey(Tail(done), e)

RECURSIVE SortByKey(_)
SortByKey(entries) ==
    IF entries = <<>> THEN <<>>
    ELSE InsertByKey(SortByKey(SubSeq(entries, 1, Len(entries) - 1)),
                     entries[Len(entries)])

\* Python's sorted: ascending by key, items of equal key keep their order
sorted(entries) ==
    LET s == SortByKey(entries) IN [i \in 1..Len(s) |-> s[i].item]

\* a company as load_qualified_companies holds it after reading its file
LoadedCompany(company_data, stem) ==
    IF company_data.name = "" \/ company_data.name = "Unknown Company"
    THEN [company_data EXCEPT !.name = "Company-" \o Last8(stem)]
    ELSE company_data

CompanyRank(c) ==
    IF c.lead_priority = "exceptional" THEN 0
    ELSE IF c.lead_priority = "high_priority" THEN 1
    ELSE IF c.lead_priority = "qualified" THEN 2
    ELSE 3

load_qualified_companies(dir, order) ==
    sorted([i \in 1..Len(order) |->
              LET c == LoadedCompany(dir[order[i]], order[i])
              IN [key |-> <<CompanyRank(c), 0 - c.qualification_score>>,
                  item |-> c]])


\* cost in cents that log_token_usage records for a call that got a reply
CallCost == 2

\* estimated_cost of the three budget checks, in cents
IdentifyEstimate == 3
QueryEstimate == 1
OutreachEstimate(stakeholder) == IF stakeholder.priority = "high" THEN 5 ELSE 2

\* Elements of the list parsed from a reply.  title "" stands for a title
\* that is absent or empty, decision_maker_score 0 for a score that is
\* absent or zero: the extraction loops treat both alike.
RawDirector ==
    [is_dict |-> TRUE, title |-> "Operations Director",
     decision_maker_score |-> 90, rationale |-> "Owns material sourcing"]
RawUntitled ==
    [is_dict |-> TRUE, title |-> "", decision_maker_score |-> 0,
     rationale |-> ""]
RawUntitledHigh ==
    [is_dict |-> TRUE, title |-> "", decision_maker_score |-> 90,
     rationale |-> "Signs off on film purchases"]
RawBuyer ==
    [is_dict |-> TRUE, title |-> "Buyer", decision_maker_score |-> 50,
     rationale |-> "Places orders"]
RawScalar ==
    [is_dict |-> FALSE, title |-> "", decision_maker_score |-> 0,
     rationale |-> ""]

\* replies of call_openai_api: the error marker of a failed call, prose
\* with no JSON in it, or a JSON list
IdentifyReplies ==
    { [kind |-> "error", items |-> <<>>],
      [kind |-> "text", items |-> <<>>],
      [kind |-> "json", items |-> <<>>],
      [kind |-> "json", items |-> <<RawScalar>>],
      [kind |-> "json", items |-> <<RawDirector>>],
      [kind |-> "json", items |-> <<RawUntitled>>],
      [kind |-> "json", items |-> <<RawBuyer, RawUntitledHigh>>] }

\* total_cost_usd of the record the call appends: an error record has no tokens
ReplyCost(reply) == IF reply.kind = "error" THEN 0 ELSE CallCost

\* the list the parsing block leaves in `stakeholders`
ParsedStakeholders(reply) == IF reply.kind = "json" THEN reply.items ELSE <<>>

FallbackStakeholders(segment) ==
    IF segment = "Large Format Print Providers"
    THEN << [is_dict |-> TRUE, title |-> "Operations Director",
             decision_maker_score |-> 90,
             rationale |-> "Oversees production and material sourcing"],
            [is_dict |-> TRUE, title |-> "Production Manager",
             decision_maker_score |-> 80,
             rationale |-> "Influences material selection"] >>
    ELSE IF segment = "Fleet Graphics Specialists"
    THEN << [is_dict |-> TRUE, title |-> "Fleet Graphics Director",
             decision_maker_score |-> 90,
             rationale |-> "Decides on vehicle wrap materials"],
            [is_dict |-> TRUE, title |-> "Product Development Manager",
             decision_maker_score |-> 75,
             rationale |-> "Evaluates new materials"] >>
    ELSE << [is_dict |-> TRUE, title |-> "Production Director",
             decision_maker_score |-> 85,
             rationale |-> "Influences material selection"],
            [is_dict |-> TRUE, title |-> "Materials Procurement Manager",
             decision_maker_score |-> 70,
             rationale |-> "Makes purchasing decisions"] >>

\* str(uuid.uuid4()): the n-th identifier issued for a stakeholder
StakeholderId(n) == "s" \o ToString(n)

\* one element of enhanced_stakeholders; sales_navigator_query "" stands
\* for a stakeholder without that key
EnhancedStakeholder(raw, company, n) ==
    [id |-> StakeholderId(n),
     company_id |-> company.id,
     company_name |-> company.name,
     title |-> IF raw.title = "" THEN "Unknown" ELSE raw.title,
     decision_maker_score |->
         IF raw.decision_maker_score = 0 THEN 75 ELSE raw.decision_maker_score,
     decision_maker_rationale |-> raw.rationale,
     priority |-> "medium",
     customer_segment |-> company.customer_segment,
     sales_navigator_query |-> ""]

\* identify_stakeholders_for_company after an approved budget check: what
\* it returns for the reply, `issued` identifiers having been issued before
identify_stakeholders_for_company(company, reply, issued) ==
    LET parsed == ParsedStakeholders(reply)
        found == IF parsed = <<>>
                 THEN FallbackStakeholders(company.customer_segment)
                 ELSE parsed
    IN IF \E i \in DOMAIN found : ~found[i].is_dict
       THEN [company_id |-> company.id, raised |-> TRUE, stakeholders |-> <<>>]
       ELSE [company_id |-> company.id, raised |-> FALSE,
             stakeholders |->
                 [i \in DOMAIN found |->
                     EnhancedStakeholder(found[i], company, issued + i)]]

\* ledgers left by earlier use of the API.  Spend under "general", the
\* default module of call_openai_api, counts against the buffer.
PriorLedgers ==
    { <<>>,
      << [module |-> "stakeholder_identification", total_cost_usd |-> 4000],
         [module |-> "general", total_cost_usd |-> 4000] >>,
      << [module |-> "outreach_generation", total_cost_usd |-> 6000],
         [module |-> "general", total_cost_usd |-> 4000] >>,
      << [module |-> "stakeholder_identification", total_cost_usd |-> 2997],
         [module |-> "general", total_cost_usd |-> 4000] >> }

PipeInit ==
    /\ ledger \in PriorLedgers
    /\ budget_check = NoCheck
    /\ ScoreIdle
    /\ pc = "stakeholder_stage"
    /\ companies_dir \in CompanyDirs
    /\ stakeholders_dir = <<>>
    /\ outreach_dir = <<>>
    /\ companies = <<>>
    /\ all_stakeholders = <<>>
    /\ returned = NoReturn
    /\ stakeholders = <<>>
    /\ outreach_messages = <<>>
    /\ loop_index = 0
    /\ usage_reports = 0
    /\ RestIdle

\* run_stakeholder_identification, step 1
LoadQualifiedCompanies ==
    /\ pc = "stakeholder_stage"
    /\ \E order \in GlobOrders(companies_dir) :
         companies' = load_qualified_companies(companies_dir, order)
    /\ pc' = IF companies' = <<>> THEN "outreach_stage" ELSE "identify"
    /\ loop_index' = 1
    /\ dirs_read' = {"companies"}
    /\ UNCHANGED <<ledgerVars, scoreVars, content, upVars, callVars, companies_dir, stakeholders_dir,
                   outreach_dir, all_stakeholders, returned, stakeholders,
                   outreach_messages, usage_reports>>

\* run_stakeholder_identification, step 2: one iteration of the loop
IdentifyStakeholders ==
    /\ pc = "identify"
    /\ loop_index <= Len(companies)
    /\ LET company == companies[loop_index]
           next_pc == IF loop_index = Len(companies) THEN "queries" ELSE "identify"
       IN IF ~is_budget_available(ledger, "stakeholder_identification",
                                  IdentifyEstimate)
          THEN /\ returned' = [company_id |-> company.id, raised |-> FALSE,
                               stakeholders |-> <<>>]
               /\ pc' = next_pc
               /\ UNCHANGED <<ledger, all_stakeholders, request>>
          ELSE \E reply \in IdentifyReplies :
               /\ request' = OpenAIRequest("stakeholder_identification",
                                           StakeholderModel(company))
               /\ ledger' = log_token_usage(ledger, request'.module,
                                            ReplyCost(reply))
               /\ returned' = identify_stakeholders_for_company(
                                  company, reply, Len(all_stakeholders))
               /\ pc' = IF returned'.raised THEN "raised" ELSE next_pc
               /\ all_stakeholders' = all_stakeholders \o returned'.stakeholders
    /\ loop_index' = IF pc' = "queries" THEN 1 ELSE loop_index + 1
    /\ UNCHANGED <<dirs_read, budget_check, scoreVars, content, upVars, attempt, retry_delay, sleeps, call_result, error, companies_dir, stakeholders_dir,
                   outreach_dir, companies, stakeholders, outreach_messages,
                   usage_reports>>


\* replies to the query and the outreach prompts: the error marker, a reply
\* that carries a "Subject:" line, a reply in one paragraph without one
TextReplies == {"error", "marked", "plain"}

\* replies to the outreach prompt: also one whose first line is a heading
OutreachReplies == TextReplies \cup {"headed"}

TextReplyCost(reply) == IF reply = "error" THEN 0 ELSE CallCost

\* generate_sales_navigator_query after an approved budget check
generate_sales_navigator_query(stakeholder, reply) ==
    IF stakeholder.decision_maker_score < 70 THEN stakeholder
    ELSE [stakeholder EXCEPT !.sales_navigator_query =
              IF reply = "error" THEN "Error: API call failed"
              ELSE "Title AND Company"]

\* run_stakeholder_identification, step 3: one iteration of the loop
GenerateSalesNavigatorQuery ==
    /\ pc = "queries"
    /\ loop_index <= Len(all_stakeholders)
    /\ LET stakeholder == all_stakeholders[loop_index]
           wanted == /\ stakeholder.decision_maker_score >= 75
                     /\ \E c \in DOMAIN companies :
                            companies[c].id = stakeholder.company_id
       IN IF ~wanted
             \/ ~is_budget_available(ledger, "stakeholder_identification",
                                     QueryEstimate)
          THEN UNCHANGED <<ledger, all_stakeholders, request>>
          ELSE \E reply \in TextReplies :
               /\ request' = IF stakeholder.decision_maker_score < 70 THEN request
                             ELSE OpenAIRequest("stakeholder_identification",
                                                "gpt-3.5-turbo")
               /\ ledger' = IF stakeholder.decision_maker_score < 70 THEN ledger
                            ELSE log_token_usage(ledger, request'.module,
                                                 TextReplyCost(reply))
               /\ all_stakeholders' =
                      [all_stakeholders EXCEPT ![loop_index] =
                           generate_sales_navigator_query(stakeholder, reply)]
    /\ loop_index' = loop_index + 1
    /\ UNCHANGED <<dirs_read, budget_check, scoreVars, content, upVars, attempt, retry_delay, sleeps, call_result, error, pc, companies_dir, stakeholders_dir,
                   outreach_dir, companies, returned, stakeholders,
                   outreach_messages, usage_reports>>

StakeholderPriority(score) ==
    IF score >= 80 THEN "high" ELSE IF score >= 60 THEN "medium" ELSE "low"

prioritize_stakeholders(list) ==
    LET sorted_stakeholders ==
            sorted([i \in DOMAIN list |->
                      [key |-> <<0 - list[i].decision_maker_score, 0>>,
                       item |-> list[i]]])
        labelled ==
            [i \in DOMAIN sorted_stakeholders |->
                [sorted_stakeholders[i] EXCEPT !.priority =
                     StakeholderPriority(sorted_stakeholders[i].decision_maker_score)]]
    IN SelectSeq(labelled, LAMBDA x : x.priority = "high")
       \o SelectSeq(labelled, LAMBDA x : x.priority = "medium")
       \o SelectSeq(labelled, LAMBDA x : x.priority = "low")

\* JSON null
None == "null"

\* The JSON object save_stakeholder_data writes.  The Stakeholder model is
\* built with relevance_score= and relevance_rationale=, which are not
\* fields of the model and are ignored: decision_maker_score and
\* decision_maker_rationale keep the model's defaults.
StakeholderFile(stakeholder) ==
    [id |-> stakeholder.id,
     company_id |-> stakeholder.company_id,
     title |-> stakeholder.title,
     decision_maker_score |-> 0,
     decision_maker_rationale |-> None,
     priority |-> stakeholder.priority,
     company_name |-> stakeholder.company_name,
     customer_segment |-> stakeholder.customer_segment,
     sales_navigator_query |-> stakeholder.sales_navigator_query]

RECURSIVE save_stakeholder_data(_, _)
save_stakeholder_data(dir, list) ==
    IF list = <<>> THEN dir
    ELSE save_stakeholder_data(
             (Head(list).id :> StakeholderFile(Head(list))) @@ dir, Tail(list))

\* run_stakeholder_identification, steps 4 and 5 and the usage report
PrioritizeAndSave ==
    /\ pc = "queries"
    /\ loop_index > Len(all_stakeholders)
    /\ all_stakeholders' = prioritize_stakeholders(all_stakeholders)
    /\ stakeholders_dir' = save_stakeholder_data(stakeholders_dir, all_stakeholders')
    /\ IF UsageReportRaises(ledger)
       THEN pc' = "raised" /\ UNCHANGED usage_reports
       ELSE pc' = "outreach_stage" /\ usage_reports' = usage_reports + 1
    /\ loop_index' = 0
    /\ UNCHANGED <<dirs_read, ledgerVars, scoreVars, content, upVars, callVars, companies_dir, outreach_dir, companies,
                   returned, stakeholders, outreach_messages>>


StakeholderRank(s) ==
    IF s.priority = "high" THEN 0 ELSE IF s.priority = "medium" THEN 1 ELSE 2

\* the two skip tests of load_prioritized_stakeholders
InvalidCompanyName(name) ==
    StartsWith(name, "Company-") \/ name = "Unknown Company"

\* load_prioritized_stakeholders without the test of the title
load_prioritized_stakeholders_unfiltered(dir, order) ==
    LET read == [i \in 1..Len(order) |-> dir[order[i]]]
        kept == SelectSeq(read, LAMBDA d : ~InvalidCompanyName(d.company_name))
    IN sorted([i \in DOMAIN kept |->
                 [key |-> <<StakeholderRank(kept[i]),
                            0 - kept[i].decision_maker_score>>,
                  item |-> kept[i]]])

\* load_prioritized_stakeholders without the test of the company name
load_prioritized_stakeholders_any_company(dir, order) ==
    LET read == [i \in 1..Len(order) |-> dir[order[i]]]
        kept == SelectSeq(read, LAMBDA d : d.title # "Unknown")
    IN sorted([i \in DOMAIN kept |->
                 [key |-> <<StakeholderRank(kept[i]),
                            0 - kept[i].decision_maker_score>>,
                  item |-> kept[i]]])

load_prioritized_stakeholders(dir, order) ==
    LET read == [i \in 1..Len(order) |-> dir[order[i]]]
        kept == SelectSeq(read, LAMBDA d :
                    /\ ~InvalidCompanyName(d.company_name)
                    /\ d.title # "Unknown")
    IN sorted([i \in DOMAIN kept |->
                 [key |-> <<StakeholderRank(kept[i]),
                            0 - kept[i].decision_maker_score>>,
                  item |-> kept[i]]])

\* the empty dict
NoCompany == [id |-> "", name |-> "", lead_priority |-> "",
              qualification_score |-> 0, customer_segment |-> ""]

\* get_company_details rebuilding the company under a fresh id
get_company_details_fresh_id(stakeholder, dir) ==
    IF stakeholder.company_id = "" THEN NoCompany
    ELSE IF stakeholder.company_id \in DOMAIN dir THEN dir[stakeholder.company_id]
    ELSE [id |-> "c0", name |-> stakeholder.company_name,
          lead_priority |-> "", qualification_score |-> 0,
          customer_segment |-> stakeholder.customer_segment]

get_company_details(stakeholder, dir) ==
    IF stakeholder.company_id = "" THEN NoCompany
    ELSE IF stakeholder.company_id \in DOMAIN dir THEN dir[stakeholder.company_id]
    ELSE [id |-> stakeholder.company_id, name |-> stakeholder.company_name,
          lead_priority |-> "", qualification_score |-> 0,
          customer_segment |-> stakeholder.customer_segment]

UpperCase == <<"A", "B", "C", "D", "E", "F", "G", "H", "I", "J", "K", "L", "M",
               "N", "O", "P", "Q", "R", "S", "T", "U", "V", "W", "X", "Y", "Z">>
LowerCase == <<"a", "b", "c", "d", "e", "f", "g", "h", "i", "j", "k", "l", "m",
               "n", "o", "p", "q", "r", "s", "t", "u", "v", "w", "x", "y", "z">>

RECURSIVE lower(_)
\* str.lower
lower(str) ==
    IF Len(str) = 0 THEN ""
    ELSE LET ch == SubSeq(str, 1, 1)
             lc == IF \E k \in DOMAIN UpperCase : UpperCase[k] = ch
                   THEN LowerCase[CHOOSE k \in DOMAIN UpperCase : UpperCase[k] = ch]
                   ELSE ch
         IN lc \o lower(SubSeq(str, 2, Len(str)))

\* sub in str
Contains(str, sub) ==
    \E k \in 1..(Len(str) - Len(sub) + 1) : SubSeq(str, k, k + Len(sub) - 1) = sub

stakeholder_role(title) ==
    IF \E role \in {"technical", "engineer", "director", "r&d"} :
           Contains(lower(title), role)
    THEN "technical" ELSE "business"

\* str.find(sub, from): the first position at or after `from` where sub
\* starts, counted from 1; 0 when there is none
Find(str, sub, from) ==
    LET hits == { k \in from..(Len(str) - Len(sub) + 1) :
                    SubSeq(str, k, k + Len(sub) - 1) = sub }
    IN IF hits = {} THEN 0 ELSE CHOOSE k \in hits : \A j \in hits : k <= j

Whitespace == {" ", "\n", "\t"}

RECURSIVE lstrip(_)
lstrip(str) ==
    IF Len(str) > 0 /\ SubSeq(str, 1, 1) \in Whitespace
    THEN lstrip(SubSeq(str, 2, Len(str))) ELSE str

RECURSIVE rstrip(_)
rstrip(str) ==
    IF Len(str) > 0 /\ SubSeq(str, Len(str), Len(str)) \in Whitespace
    THEN rstrip(SubSeq(str, 1, Len(str) - 1)) ELSE str

\* str.strip
strip(str) == rstrip(lstrip(str))

\* the text of a reply of each kind
ReplyContent(reply) ==
    IF reply = "error" THEN "Error: Connection error."
    ELSE IF reply = "marked"
    THEN "Subject: Longer-lasting graphics\nDear Alex,"
    ELSE IF reply = "headed" THEN "Protect your fleet graphics\nDear Alex,"
    ELSE "Tedlar films keep graphics vivid for years."

subject_markers == <<"Subject:", "Subject Line:", "Email Subject:">>

RECURSIVE MarkerSubject(_, _)
\* the loop over subject_markers, from marker i on
MarkerSubject(text, i) ==
    IF i > Len(subject_markers) THEN ""
    ELSE LET found == Find(text, subject_markers[i], 1)
             subject_start == found + Len(subject_markers[i])
             subject_end == Find(text, "\n", subject_start)
         IN IF found > 0 /\ subject_end > subject_start
            THEN strip(SubSeq(text, subject_start, subject_end - 1))
            ELSE MarkerSubject(text, i + 1)

\* the first line of the reply when it is short and no salutation, else ""
FirstLineSubject(text) ==
    LET newline == Find(text, "\n", 1)
        first_line == strip(SubSeq(text, 1, newline - 1))
    IN IF newline > 0 /\ Len(first_line) < 100
          /\ ~StartsWith(first_line, "Dear") /\ ~StartsWith(first_line, "Hello")
       THEN first_line ELSE ""

\* OutreachSubject with the subject of the budget stub as the default
OutreachSubject_generic(text, role, company) ==
    IF MarkerSubject(text, 1) # "" THEN MarkerSubject(text, 1)
    ELSE IF FirstLineSubject(text) # "" THEN FirstLineSubject(text)
    ELSE "Enhancing your signage durability with DuPont Tedlar"

\* the subject generate_outreach_message settles on
OutreachSubject(text, role, company) ==
    IF MarkerSubject(text, 1) # "" THEN MarkerSubject(text, 1)
    ELSE IF FirstLineSubject(text) # "" THEN FirstLineSubject(text)
    ELSE IF role = "technical"
    THEN "Enhanced durability metrics for " \o company.name \o "'s signage"
    ELSE "Reducing TCO for " \o company.name \o "'s graphics solutions"

MessageId(n) == "m" \o ToString(n)

\* The dict returned when the budget check is denied.  It has no id,
\* stakeholder_name, stakeholder_title, company_name or stakeholder_role
\* key: "" stands for the missing key.
BudgetStub(stakeholder, company) ==
    [id |-> "", stakeholder_id |-> stakeholder.id, company_id |-> company.id,
     stakeholder_title |-> "", company_name |-> "",
     subject |-> "Enhancing your signage durability with DuPont Tedlar",
     stakeholder_role |-> ""]

\* generate_outreach_message after an approved budget check
generate_outreach_message(stakeholder, company, reply, n) ==
    [id |-> MessageId(n), stakeholder_id |-> stakeholder.id,
     company_id |-> company.id,
     stakeholder_title |-> stakeholder.title,
     company_name |-> company.name,
     subject |-> OutreachSubject(ReplyContent(reply),
                                 stakeholder_role(stakeholder.title), company),
     stakeholder_role |-> stakeholder_role(stakeholder.title)]

\* save_outreach_message: message["id"] raises KeyError for the stub, the
\* function catches it and writes nothing
RECURSIVE save_outreach_messages(_, _)
save_outreach_messages(dir, messages) ==
    IF messages = <<>> THEN dir
    ELSE save_outreach_messages(
             IF Head(messages).id = "" THEN dir
             ELSE (Head(messages).id :> Head(messages)) @@ dir,
             Tail(messages))


\* the first step of outreach generation also listing data/outreach
LoadPrioritizedStakeholders_listing_outreach ==
    /\ pc = "outreach_stage"
    /\ \E order \in GlobOrders(stakeholders_dir) :
         stakeholders' = load_prioritized_stakeholders(stakeholders_dir, order)
    /\ pc' = IF stakeholders' = <<>> THEN "done" ELSE "generate"
    /\ loop_index' = 1
    /\ dirs_read' = {"stakeholders", "outreach"}
    /\ UNCHANGED <<ledgerVars, scoreVars, content, upVars, callVars, companies_dir, stakeholders_dir,
                   outreach_dir, companies, all_stakeholders, returned,
                   outreach_messages, usage_reports>>

\* run_outreach_generation, step 1
LoadPrioritizedStakeholders ==
    /\ pc = "outreach_stage"
    /\ \E order \in GlobOrders(stakeholders_dir) :
         stakeholders' = load_prioritized_stakeholders(stakeholders_dir, order)
    /\ pc' = IF stakeholders' = <<>> THEN "done" ELSE "generate"
    /\ loop_index' = 1
    /\ dirs_read' = {"stakeholders"}
    /\ UNCHANGED <<ledgerVars, scoreVars, content, upVars, callVars, companies_dir, stakeholders_dir,
                   outreach_dir, companies, all_stakeholders, returned,
                   outreach_messages, usage_reports>>

\* run_outreach_generation, steps 2 and 3: one iteration of the loop
GenerateOutreach ==
    /\ pc = "generate"
    /\ loop_index <= Len(stakeholders)
    /\ LET stakeholder == stakeholders[loop_index]
           company == get_company_details(stakeholder, companies_dir)
       IN IF company = NoCompany \/ company.name = "Unknown Company"
          THEN UNCHANGED <<ledger, outreach_messages, content, request>>
          ELSE IF ~is_budget_available(ledger, "outreach_generation",
                                       OutreachEstimate(stakeholder))
          THEN /\ outreach_messages' =
                      Append(outreach_messages, BudgetStub(stakeholder, company))
               /\ UNCHANGED <<ledger, content, request>>
          ELSE \E reply \in OutreachReplies :
               /\ request' = OpenAIRequest("outreach_generation",
                                           OutreachModel(stakeholder))
               /\ ledger' = log_token_usage(ledger, request'.module,
                                            TextReplyCost(reply))
               /\ content' = ReplyContent(reply)
               /\ outreach_messages' =
                      Append(outreach_messages,
                             generate_outreach_message(stakeholder, company, reply,
                                                       Len(outreach_messages) + 1))
    /\ pc' = IF loop_index = Len(stakeholders) THEN "save_outreach" ELSE "generate"
    /\ loop_index' = loop_index + 1
    /\ dirs_read' = dirs_read \cup {"companies"}
    /\ UNCHANGED <<budget_check, scoreVars, upVars, attempt, retry_delay, sleeps, call_result, error, companies_dir,
                   stakeholders_dir, outreach_dir, companies, all_stakeholders,
                   returned, stakeholders, usage_reports>>

\* the sample print reads message['stakeholder_name'] of the first three
\* messages, which the budget stub does not have
SamplePrintRaises(messages) ==
    \E k \in DOMAIN messages : k <= 3 /\ messages[k].id = ""

\* run_outreach_generation, step 4, the usage report and the summary
SaveOutreach ==
    /\ pc = "save_outreach"
    /\ outreach_dir' = save_outreach_messages(outreach_dir, outreach_messages)
    /\ IF UsageReportRaises(ledger)
       THEN pc' = "raised" /\ UNCHANGED usage_reports
       ELSE /\ usage_reports' = usage_reports + 1
            /\ pc' = IF SamplePrintRaises(outreach_messages) THEN "raised" ELSE "done"
    /\ loop_index' = 0
    /\ UNCHANGED <<dirs_read, ledgerVars, scoreVars, content, upVars, callVars, companies_dir, stakeholders_dir,
                   companies, all_stakeholders, returned, stakeholders,
                   outreach_messages>>

PipeNext ==
    \/ LoadQualifiedCompanies
    \/ IdentifyStakeholders
    \/ GenerateSalesNavigatorQuery
    \/ PrioritizeAndSave
    \/ LoadPrioritizedStakeholders
    \/ GenerateOutreach
    \/ SaveOutreach

SpecPipe == PipeInit /\ [][PipeNext]_vars


\* C7: persisting an entity and reloading its JSON file reproduces every
\* field; in particular a persisted stakeholder's decision_maker_score and
\* decision_maker_rationale read back equal to the values held in memory
\* when save_stakeholder_data wrote it.
C7_StakeholderRoundTrip ==
    \A i \in DOMAIN all_stakeholders :
        LET s == all_stakeholders[i] IN
        s.id \in DOMAIN stakeholders_dir =>
            /\ stakeholders_dir[s.id].decision_maker_score = s.decision_maker_score
            /\ stakeholders_dir[s.id].decision_maker_rationale
                   = s.decision_maker_rationale

\* the auto-generated placeholder names
C8_Placeholder(name) ==
    \/ name = "Unknown Company"
    \/ (Len(name) >= 8 /\ SubSeq(name, 1, 8) = "Company-")

C8_PlaceholderFileExists ==
    \E c \in DOMAIN companies_dir :
        \/ companies_dir[c].name = ""
        \/ C8_Placeholder(companies_dir[c].name)

\* C8 as stated: no persisted stakeholder and no persisted outreach message
\* carries a placeholder company name.
C8_NeverInStageOutputs ==
    /\ \A id \in DOMAIN stakeholders_dir :
           ~C8_Placeholder(stakeholders_dir[id].company_name)
    /\ \A id \in DOMAIN outreach_dir :
           ~C8_Placeholder(outreach_dir[id].company_name)

\* C8: a company with a placeholder name never appears in the outreach
\* stage: no stakeholder the stage loads, no message it generates and no
\* message it persists carries such a company name (the stakeholder stage
\* does persist the stakeholders of such a company).
C8_NeverInOutreach ==
    /\ \A i \in DOMAIN stakeholders :
           ~C8_Placeholder(stakeholders[i].company_name)
    /\ \A i \in DOMAIN outreach_messages :
           ~C8_Placeholder(outreach_messages[i].company_name)
    /\ \A id \in DOMAIN outreach_dir :
           ~C8_Placeholder(outreach_dir[id].company_name)

\* the outreach stage ran to its end and saved a message while a company
\* file with a placeholder name and a persisted stakeholder of it existed
C8_Witness ==
    /\ pc = "done"
    /\ outreach_dir # <<>>
    /\ C8_PlaceholderFileExists
    /\ \E id \in DOMAIN stakeholders_dir :
           C8_Placeholder(stakeholders_dir[id].company_name)

\* C9: a persisted stakeholder whose title is "Unknown" is never in the
\* list load_prioritized_stakeholders returns and no generated message is
\* addressed to one, whatever its score or priority.
C9_UnknownTitleExcluded ==
    /\ \A i \in DOMAIN stakeholders : stakeholders[i].title # "Unknown"
    /\ \A i \in DOMAIN outreach_messages :
           LET sid == outreach_messages[i].stakeholder_id IN
           /\ sid \in DOMAIN stakeholders_dir
           /\ stakeholders_dir[sid].title # "Unknown"

\* a high-priority stakeholder of a properly named company was persisted
\* with title "Unknown", and the outreach stage generated a message for
\* another stakeholder
C9_Witness ==
    /\ pc \in {"generate", "save_outreach", "done"}
    /\ outreach_messages # <<>>
    /\ \E id \in DOMAIN stakeholders_dir :
           /\ stakeholders_dir[id].title = "Unknown"
           /\ stakeholders_dir[id].priority = "high"
           /\ ~C8_Placeholder(stakeholders_dir[id].company_name)

\* C10: whatever the ledger and the reply, identify_stakeholders_for_company
\* returns a non-empty stakeholder list.
C10_NeverEmpty ==
    returned # NoReturn =>
        /\ ~returned.raised
        /\ returned.stakeholders # <<>>


\* a reply with neither a subject marker nor a line break
C20_NoSubjectCue(text) ==
    /\ Find(text, "Subject:", 1) = 0
    /\ Find(text, "Subject Line:", 1) = 0
    /\ Find(text, "\n", 1) = 0

\* the subject as a function of company name and role alone
C20_Synthesized(name, role) ==
    IF role = "technical"
    THEN "Enhanced durability metrics for " \o name \o "'s signage"
    ELSE "Reducing TCO for " \o name \o "'s graphics solutions"

C20_LastMessage == outreach_messages[Len(outreach_messages)]

\* C20: when the reply yields no subject by a marker or by its first line,
\* the subject of the generated message contains the company's name and is
\* determined by the company name and the stakeholder's role alone.
C20_SubjectFromNameAndRole ==
    (/\ outreach_messages # <<>>
     /\ C20_LastMessage.id # ""
     /\ C20_NoSubjectCue(content))
    => /\ C20_LastMessage.subject =
              C20_Synthesized(C20_LastMessage.company_name,
                              C20_LastMessage.stakeholder_role)
       /\ Contains(C20_LastMessage.subject, C20_LastMessage.company_name)

\* a message for a business-role stakeholder was generated from the error
\* marker after an approved budget check
C20_Witness ==
    /\ outreach_messages # <<>>
    /\ C20_LastMessage.id # ""
    /\ content = ReplyContent("error")
    /\ C20_LastMessage.stakeholder_role = "business"
    /\ C20_LastMessage.company_name = "Acme Signs"


\* ---------------------------------------------------------------------
\* Event and association research.  Of a gathering the date, location,
\* description and website are left out: no modelled decision reads them.
\* priority "" and detailed_analysis "" stand for a gathering without
\* that key, id "" for one that save_gathering_data has not seen yet.
\* ---------------------------------------------------------------------

SeedGathering(name, type, score) ==
    [id |-> "", name |-> name, type |-> type, relevance_score |-> score,
     relevance_rationale |-> "Major industry " \o type,
     source |-> "Pre-researched data", detailed_analysis |-> "",
     priority |-> ""]

\* TEDLAR_CONTEXT["key_industry_events_2024"] at relevance 9.0
pre_researched_events ==
    << SeedGathering("ISA International Sign Expo 2024", "event", 90),
       SeedGathering("PRINTING United Expo 2024", "event", 90),
       SeedGathering("FESPA Global Print Expo 2024", "event", 90),
       SeedGathering("Graphics Pro Expo 2024", "event", 90) >>

\* TEDLAR_CONTEXT["key_industry_associations"] at relevance 8.5
pre_researched_associations ==
    << SeedGathering("International Sign Association (ISA)", "association", 85),
       SeedGathering("PRINTING United Alliance", "association", 85),
       SeedGathering("Society for Experiential Graphic Design (SEGD)",
                     "association", 85),
       SeedGathering("FESPA", "association", 85),
       SeedGathering("Specialty Graphic Imaging Association (SGIA)",
                     "association", 85),
       SeedGathering("National Association of Sign Supply Distributors (NASSD)",
                     "association", 85) >>

\* Elements of the JSON list in a discovery reply; type "" stands for an
\* item without a type.
DiscoveredRepeat ==
    [name |-> "FESPA", type |-> "association", relevance_score |-> 70,
     why_relevant |-> "European print federation"]
DiscoveredSociety ==
    [name |-> "Wrap Society", type |-> "", relevance_score |-> 83,
     why_relevant |-> "Vehicle wrap installers"]
DiscoveredShow ==
    [name |-> "Sign Show", type |-> "", relevance_score |-> 59,
     why_relevant |-> "Regional sign makers"]

\* replies of query_perplexity
DiscoveryReplies ==
    { [kind |-> "error", items |-> <<>>],
      [kind |-> "text", items |-> <<>>],
      [kind |-> "json", items |-> <<DiscoveredRepeat, DiscoveredSociety>>],
      [kind |-> "json", items |-> <<DiscoveredShow>>] }

\* TOKEN_PRICING["perplexity"]["request"]: the cost of every record
\* query_perplexity appends, the error record too
PerplexityCost == 1

DiscoverEstimate == 2
AnalyzeEstimate == 6

gathering_type(item) ==
    IF item.type # "" THEN lower(item.type)
    ELSE IF \E kw \in {"association", "organization", "society", "institute",
                       "federation", "alliance"} :
               Contains(lower(item.name), kw)
    THEN "association" ELSE "event"

RECURSIVE AddDiscovered(_, _)
\* the loop that adds the discovered gatherings, skipping known names
AddDiscovered(all_gatherings, items) ==
    IF items = <<>> THEN all_gatherings
    ELSE LET item == Head(items) IN
         IF \E k \in DOMAIN all_gatherings : all_gatherings[k].name = item.name
         THEN AddDiscovered(all_gatherings, Tail(items))
         ELSE AddDiscovered(
                  Append(all_gatherings,
                         [id |-> "", name |-> item.name,
                          type |-> gathering_type(item),
                          relevance_score |-> item.relevance_score,
                          relevance_rationale |-> item.why_relevant,
                          source |-> "Perplexity discovery",
                          detailed_analysis |-> "", priority |-> ""]),
                  Tail(items))

\* discover_industry_gatherings after an approved budget check
discover_industry_gatherings(reply) ==
    AddDiscovered(pre_researched_events \o pre_researched_associations,
                  IF reply.kind = "json" THEN reply.items ELSE <<>>)


\* replies to the relevance prompt: the error marker, prose without a JSON
\* object, or an object with overall_event_priority.score and .justification
AnalysisReplies ==
    { [kind |-> "error", score |-> 0],
      [kind |-> "text", score |-> 0],
      [kind |-> "scored", score |-> 83],
      [kind |-> "scored", score |-> 60],
      [kind |-> "scored", score |-> 59] }

\* analyze_gathering_relevance after an approved budget check
analyze_gathering_relevance(gathering, reply) ==
    IF reply.kind = "scored"
    THEN [gathering EXCEPT !.relevance_score = reply.score,
                           !.relevance_rationale = "Justified by attendee mix",
                           !.detailed_analysis = "analysis"]
    ELSE [gathering EXCEPT !.detailed_analysis = "{}"]

\* the priority bands with the medium threshold exclusive
GatheringPriority_exclusive(score) ==
    IF score >= 80 THEN "high" ELSE IF score > 60 THEN "medium" ELSE "low"

GatheringPriority(score) ==
    IF score >= 80 THEN "high" ELSE IF score >= 60 THEN "medium" ELSE "low"

prioritize_gatherings(list) ==
    LET sorted_gatherings ==
            sorted([i \in DOMAIN list |->
                      [key |-> <<0 - list[i].relevance_score, 0>>,
                       item |-> list[i]]])
    IN [i \in DOMAIN sorted_gatherings |->
           [sorted_gatherings[i] EXCEPT !.priority =
                GatheringPriority(sorted_gatherings[i].relevance_score)]]

\* str(uuid.uuid4()) for the n-th gathering saved
GatheringId(n) == "g" \o ToString(n)

\* save_gathering_data gives every gathering without an id a fresh one
WithGatheringIds(list) ==
    [i \in DOMAIN list |->
        IF list[i].id = "" THEN [list[i] EXCEPT !.id = GatheringId(i)]
        ELSE list[i]]

\* the files save_gathering_data adds to a directory: events when
\* want_associations is FALSE, associations when it is TRUE
RECURSIVE save_gathering_data(_, _, _)
save_gathering_data(dir, list, want_associations) ==
    IF list = <<>> THEN dir
    ELSE save_gathering_data(
             IF (Head(list).type = "association") = want_associations
             THEN (Head(list).id :> Head(list)) @@ dir
             ELSE dir,
             Tail(list), want_associations)

\* the --limit argument of the event research run
ResearchLimit == 2

\* ledgers left by earlier runs of event research and other use of the API
EventPriorLedgers ==
    { <<>>,
      << [module |-> "event_research", total_cost_usd |-> 2000],
         [module |-> "general", total_cost_usd |-> 4000] >>,
      << [module |-> "event_research", total_cost_usd |-> 1994],
         [module |-> "general", total_cost_usd |-> 4000] >> }

\* the variables of the downstream stages at rest
DownstreamIdle ==
    /\ companies_dir = <<>>
    /\ stakeholders_dir = <<>>
    /\ outreach_dir = <<>>
    /\ companies = <<>>
    /\ all_stakeholders = <<>>
    /\ returned = NoReturn
    /\ stakeholders = <<>>
    /\ outreach_messages = <<>>
    /\ loop_index = 0
    /\ usage_reports = 0

EventInit ==
    /\ ledger \in EventPriorLedgers
    /\ budget_check = NoCheck
    /\ ScoreIdle
    /\ pc = "event_stage"
    /\ DownstreamIdle
    /\ RestIdle

\* run_event_association_research, step 1
DiscoverGatherings ==
    /\ pc = "event_stage"
    /\ IF ~is_budget_available(ledger, "event_research", DiscoverEstimate)
       THEN /\ gatherings' = <<>>
            /\ UNCHANGED <<ledger, request>>
       ELSE \E reply \in DiscoveryReplies :
            /\ request' = [provider |-> "perplexity", module |-> "event_research",
                            model |-> "perplexity"]
            /\ ledger' = log_token_usage(ledger, request'.module, PerplexityCost)
            /\ gatherings' = discover_industry_gatherings(reply)
    /\ pc' = IF gatherings' = <<>> THEN "event_done" ELSE "analyze"
    /\ loop_index' = 1
    /\ UNCHANGED <<dirs_read, budget_check, scoreVars, content, attempt, retry_delay, sleeps, call_result, error, companies_dir,
                   stakeholders_dir, outreach_dir, companies, all_stakeholders,
                   returned, stakeholders, outreach_messages, usage_reports,
                   events_dir, associations_dir, analyzed_gatherings,
                   all_companies, unique_companies, qualified_companies>>

\* the gatherings left after gatherings[:limit]
LimitedGatherings ==
    SubSeq(gatherings, 1,
           IF ResearchLimit < Len(gatherings) THEN ResearchLimit
           ELSE Len(gatherings))

\* run_event_association_research, step 2: one iteration of the loop
AnalyzeGathering ==
    /\ pc = "analyze"
    /\ loop_index <= Len(LimitedGatherings)
    /\ LET gathering == LimitedGatherings[loop_index] IN
       IF ~is_budget_available(ledger, "event_research", AnalyzeEstimate)
       THEN /\ analyzed_gatherings' = Append(analyzed_gatherings, gathering)
            /\ UNCHANGED <<ledger, request>>
       ELSE \E reply \in AnalysisReplies :
            /\ request' = OpenAIRequest("event_research",
                                        LLM_CONFIG.event_research.relevance_analysis.model)
            /\ ledger' = log_token_usage(ledger, request'.module, ReplyCost(reply))
            /\ analyzed_gatherings' =
                   Append(analyzed_gatherings,
                          analyze_gathering_relevance(gathering, reply))
    /\ loop_index' = loop_index + 1
    /\ UNCHANGED <<dirs_read, budget_check, scoreVars, content, attempt, retry_delay, sleeps, call_result, error, pc, companies_dir,
                   stakeholders_dir, outreach_dir, companies, all_stakeholders,
                   returned, stakeholders, outreach_messages, usage_reports,
                   events_dir, associations_dir, gatherings,
                   all_companies, unique_companies, qualified_companies>>

\* run_event_association_research, steps 3 and 4 and the usage report
PrioritizeAndSaveGatherings ==
    /\ pc = "analyze"
    /\ loop_index > Len(LimitedGatherings)
    /\ analyzed_gatherings' =
           WithGatheringIds(prioritize_gatherings(analyzed_gatherings))
    /\ events_dir' = save_gathering_data(events_dir, analyzed_gatherings', FALSE)
    /\ associations_dir' =
           save_gathering_data(associations_dir, analyzed_gatherings', TRUE)
    /\ IF UsageReportRaises(ledger)
       THEN pc' = "raised" /\ UNCHANGED usage_reports
       ELSE pc' = "event_done" /\ usage_reports' = usage_reports + 1
    /\ loop_index' = 0
    /\ UNCHANGED <<dirs_read, ledgerVars, scoreVars, content, callVars, companies_dir,
                   stakeholders_dir, outreach_dir, companies, all_stakeholders,
                   returned, stakeholders, outreach_messages, gatherings,
                   all_companies, unique_companies, qualified_companies>>

EventNext ==
    \/ DiscoverGatherings
    \/ AnalyzeGathering
    \/ PrioritizeAndSaveGatherings

SpecEvent == EventInit /\ [][EventNext]_vars

\* C11: when the budget check of the discovery call is denied,
\* discover_industry_gatherings still returns the ten curated gatherings
\* (four events at 9.0, six associations at 8.5) and the stage goes on to
\* prioritize and persist them.
C11_SeedsOnDenial ==
    [][(/\ pc = "event_stage"
        /\ ~is_budget_available(ledger, "event_research", DiscoverEstimate))
       => (/\ gatherings' = pre_researched_events \o pre_researched_associations
           /\ pc' = "analyze")]_vars

(***************************************************************************)
(* src/data_processing/company_analysis.py                                 *)
(***************************************************************************)

\* a gathering file as save_gathering_data writes it
SavedGathering(id, name, type, score) ==
    [id |-> id, name |-> name, type |-> type, relevance_score |-> score,
     relevance_rationale |-> "", source |-> "Pre-researched data",
     detailed_analysis |-> "{}", priority |-> GatheringPriority(score)]

\* contents of data/events and data/associations left by event research
EventDirs == { <<>>, "g1" :> SavedGathering("g1", "ISA Sign Expo 2024", "event", 90) }

AssociationDirs == { <<>>, "g2" :> SavedGathering("g2", "FESPA", "association", 85) }

GatheringRank(g) ==
    IF g.priority = "high" THEN 0 ELSE IF g.priority = "medium" THEN 1 ELSE 2

load_events_and_associations(events, associations, event_order, assoc_order) ==
    LET read == [i \in DOMAIN event_order |-> events[event_order[i]]]
                \o [i \in DOMAIN assoc_order |-> associations[assoc_order[i]]]
    IN sorted([i \in DOMAIN read |->
                 [key |-> <<GatheringRank(read[i]), 0 - read[i].relevance_score>>,
                  item |-> read[i]]])

\* estimated_cost of the discovery and qualification checks, in cents
CompanyDiscoverEstimate == 2
QualificationEstimate == 10
ScreeningEstimate == 2

\* elements of the array parsed from a discovery reply
RawAcme == [name |-> "Acme Signs", qualification_score |-> 70]
RawAcmePadded == [name |-> " acme signs ", qualification_score |-> 85]
RawAcmeUpper == [name |-> "ACME SIGNS", qualification_score |-> 85]
RawBeta == [name |-> "Beta Wraps", qualification_score |-> 55]

\* replies to the discovery prompt: the error marker, prose without an array,
\* an array that does not parse, and arrays of company objects
CompanyReplies ==
    { [kind |-> "error", items |-> <<>>, text |-> "Error: Connection error."],
      [kind |-> "text", items |-> <<>>,
       text |-> "I could not find exhibitors for this event."],
      [kind |-> "badjson", items |-> <<>>,
       text |-> "Companies: [{name: Acme Signs, qualification_score: 7}, ...]"],
      [kind |-> "json", items |-> <<RawAcme, RawAcmePadded>>,
       text |-> "[{\"name\": \"Acme Signs\"}, {\"name\": \" acme signs \"}]"],
      [kind |-> "json", items |-> <<RawAcmeUpper, RawBeta>>,
       text |-> "[{\"name\": \"ACME SIGNS\"}, {\"name\": \"Beta Wraps\"}]"] }

\* json_start >= 0 and json_end > json_start, for find('[') and rfind(']') + 1
HasBracketSpan(text) ==
    /\ Find(text, "[", 1) > 0
    /\ Find(text, "]", Find(text, "[", 1)) > 0

\* the example company used when the reply holds no array
FallbackCompanies ==
    << [name |-> "Avery Dennison Graphics Solutions", qualification_score |-> 85] >>

\* the list the parsing block leaves in discovered_companies
DiscoveredCompanies(reply) ==
    IF HasBracketSpan(reply.text)
    THEN IF reply.kind = "json" THEN reply.items ELSE <<>>
    ELSE FallbackCompanies

\* str(uuid.uuid4()) for the n-th company discovered in the run
CompanyId(n) == "c" \o ToString(n)

\* the detailed_qualification key of a company that was not qualified
NotQualified == [present |-> FALSE, criterion_scores |-> <<>>]

\* discover_companies_for_gathering after an approved budget check;
\* issued is the number of ids handed out so far
discover_companies_for_gathering(gathering, reply, issued) ==
    LET discovered_companies == DiscoveredCompanies(reply)
    IN [i \in DOMAIN discovered_companies |->
          [id |-> CompanyId(issued + i),
           name |-> discovered_companies[i].name,
           qualification_score |-> discovered_companies[i].qualification_score,
           qualification_rationale |-> "",
           source_gathering_id |-> gathering.id,
           lead_priority |-> "",
           detailed_qualification |-> NotQualified]]

\* company["name"].strip().lower()
CompanyKey(company) == lower(strip(company.name))

\* the de-duplication step keeping the lower score of two duplicates
DedupStep_keep_lowest(unique, company) ==
    IF \E i \in DOMAIN unique : CompanyKey(unique[i]) = CompanyKey(company)
    THEN LET i == CHOOSE i \in DOMAIN unique :
                      CompanyKey(unique[i]) = CompanyKey(company)
         IN IF company.qualification_score < unique[i].qualification_score
            THEN [unique EXCEPT ![i] = company]
            ELSE unique
    ELSE Append(unique, company)

\* one iteration of the de-duplication loop over the dict unique_companies,
\* held as the sequence of its values in insertion order
DedupStep(unique, company) ==
    IF \E i \in DOMAIN unique : CompanyKey(unique[i]) = CompanyKey(company)
    THEN LET i == CHOOSE i \in DOMAIN unique :
                      CompanyKey(unique[i]) = CompanyKey(company)
         IN IF company.qualification_score > unique[i].qualification_score
            THEN [unique EXCEPT ![i] = company]
            ELSE unique
    ELSE Append(unique, company)

RECURSIVE DedupFrom(_, _)
DedupFrom(unique, rest) ==
    IF rest = <<>> THEN unique
    ELSE DedupFrom(DedupStep(unique, Head(rest)), Tail(rest))

\* list(unique_companies.values()) after the de-duplication loop
deduplicate(companies_found) == DedupFrom(<<>>, companies_found)

\* replies to the qualification prompt
QualificationReplies ==
    { [kind |-> "error", scores |-> <<>>],
      [kind |-> "text", scores |-> <<>>],
      [kind |-> "scored",
       scores |-> [industry_relevance |-> 90, product_fit |-> 80]],
      [kind |-> "scored", scores |-> [market_presence |-> 7]] }

QualifyEstimate(company) ==
    IF company.qualification_score >= 60 THEN QualificationEstimate
    ELSE ScreeningEstimate

\* qualify_company with lead_priority taken from the initial score
qualify_company_priority_of_initial_score(company, reply) ==
    IF reply.kind = "scored"
    THEN [company EXCEPT
            !.qualification_score = calculate_lead_score(reply.scores),
            !.lead_priority = get_lead_priority(company.qualification_score),
            !.qualification_rationale = "Scored on the weighted criteria",
            !.detailed_qualification =
                [present |-> TRUE, criterion_scores |-> reply.scores]]
    ELSE [company EXCEPT
            !.detailed_qualification =
                [present |-> TRUE, criterion_scores |-> <<>>]]

\* qualify_company after an approved budget check
qualify_company(company, reply) ==
    IF reply.kind = "scored"
    THEN [company EXCEPT
            !.qualification_score = calculate_lead_score(reply.scores),
            !.lead_priority = get_lead_priority(calculate_lead_score(reply.scores)),
            !.qualification_rationale = "Scored on the weighted criteria",
            !.detailed_qualification =
                [present |-> TRUE, criterion_scores |-> reply.scores]]
    ELSE [company EXCEPT
            !.detailed_qualification =
                [present |-> TRUE, criterion_scores |-> <<>>]]

CompanyBand(company) ==
    IF company.lead_priority \in {"exceptional", "high_priority"} THEN 0
    ELSE IF company.lead_priority = "qualified" THEN 1
    ELSE 2

\* prioritize_companies without the priority buckets: the sort by score only
prioritize_companies_by_score_only(list) ==
    sorted([i \in DOMAIN list |->
              [key |-> <<0 - list[i].qualification_score, 0>>,
               item |-> list[i]]])

prioritize_companies(list) ==
    LET sorted_companies ==
            sorted([i \in DOMAIN list |->
                      [key |-> <<0 - list[i].qualification_score, 0>>,
                       item |-> list[i]]])
    IN SelectSeq(sorted_companies, LAMBDA c : CompanyBand(c) = 0)
       \o SelectSeq(sorted_companies, LAMBDA c : CompanyBand(c) = 1)
       \o SelectSeq(sorted_companies, LAMBDA c : CompanyBand(c) = 2)

RECURSIVE save_company_data(_, _)
save_company_data(dir, list) ==
    IF list = <<>> THEN dir
    ELSE save_company_data((Head(list).id :> Head(list)) @@ dir, Tail(list))

\* ledgers left by earlier runs of company analysis and other use of the API
CompanyPriorLedgers ==
    { <<>>,
      << [module |-> "company_analysis", total_cost_usd |-> 5000],
         [module |-> "general", total_cost_usd |-> 4000] >>,
      << [module |-> "company_analysis", total_cost_usd |-> 4996],
         [module |-> "general", total_cost_usd |-> 4000] >> }

CompanyInit ==
    /\ ledger \in CompanyPriorLedgers
    /\ budget_check = NoCheck
    /\ ScoreIdle
    /\ pc = "company_stage"
    /\ DownstreamIdle
    /\ content = ""
    /\ events_dir \in EventDirs
    /\ associations_dir \in AssociationDirs
    /\ gatherings = <<>>
    /\ analyzed_gatherings = <<>>
    /\ all_companies = <<>>
    /\ unique_companies = <<>>
    /\ qualified_companies = <<>>
    /\ attempt = 0
    /\ retry_delay = 0
    /\ sleeps = <<>>
    /\ call_result = NoResult
    /\ request = NoRequest
    /\ error = ""
    /\ dirs_read = {}

\* the first step of company analysis writing a usage report before it
\* returns on an empty input
LoadGatherings_reporting ==
    /\ pc = "company_stage"
    /\ \E event_order \in GlobOrders(events_dir),
          assoc_order \in GlobOrders(associations_dir) :
         gatherings' = load_events_and_associations(
                           events_dir, associations_dir, event_order, assoc_order)
    /\ pc' = IF gatherings' = <<>> THEN "company_done" ELSE "discover"
    /\ loop_index' = IF gatherings' = <<>> THEN 0 ELSE 1
    /\ usage_reports' = IF gatherings' = <<>> THEN usage_reports + 1
                        ELSE usage_reports
    /\ dirs_read' = {"events", "associations"}
    /\ UNCHANGED <<ledgerVars, scoreVars, content, callVars, companies_dir,
                   stakeholders_dir, outreach_dir, companies, all_stakeholders,
                   returned, stakeholders, outreach_messages,
                   events_dir, associations_dir, analyzed_gatherings,
                   all_companies, unique_companies, qualified_companies>>

\* run_company_analysis, step 1
LoadGatherings ==
    /\ pc = "company_stage"
    /\ \E event_order \in GlobOrders(events_dir),
          assoc_order \in GlobOrders(associations_dir) :
         gatherings' = load_events_and_associations(
                           events_dir, associations_dir, event_order, assoc_order)
    /\ pc' = IF gatherings' = <<>> THEN "company_done" ELSE "discover"
    /\ loop_index' = IF gatherings' = <<>> THEN 0 ELSE 1
    /\ dirs_read' = {"events", "associations"}
    /\ UNCHANGED <<ledgerVars, scoreVars, content, callVars, companies_dir,
                   stakeholders_dir, outreach_dir, companies, all_stakeholders,
                   returned, stakeholders, outreach_messages, usage_reports,
                   events_dir, associations_dir, analyzed_gatherings,
                   all_companies, unique_companies, qualified_companies>>

\* run_company_analysis, step 2: one iteration of the loop
DiscoverCompanies ==
    /\ pc = "discover"
    /\ loop_index <= Len(gatherings)
    /\ IF ~is_budget_available(ledger, "company_analysis", CompanyDiscoverEstimate)
       THEN UNCHANGED <<ledger, all_companies, content, request>>
       ELSE \E reply \in CompanyReplies :
            /\ request' = OpenAIRequest("company_analysis",
                                        LLM_CONFIG.company_analysis.initial_screening.model)
            /\ ledger' = log_token_usage(ledger, request'.module, ReplyCost(reply))
            /\ content' = reply.text
            /\ all_companies' =
                   all_companies
                   \o discover_companies_for_gathering(
                          gatherings[loop_index], reply, Len(all_companies))
    /\ loop_index' = loop_index + 1
    /\ UNCHANGED <<dirs_read, budget_check, scoreVars, attempt, retry_delay, sleeps, call_result, error, pc, companies_dir,
                   stakeholders_dir, outreach_dir, companies, all_stakeholders,
                   returned, stakeholders, outreach_messages, usage_reports,
                   events_dir, associations_dir, gatherings, analyzed_gatherings,
                   unique_companies, qualified_companies>>

\* run_company_analysis: the de-duplication by name
MergeCompanies ==
    /\ pc = "discover"
    /\ loop_index > Len(gatherings)
    /\ unique_companies' = deduplicate(all_companies)
    /\ pc' = "qualify"
    /\ loop_index' = 1
    /\ UNCHANGED <<dirs_read, ledgerVars, scoreVars, content, callVars, companies_dir,
                   stakeholders_dir, outreach_dir, companies, all_stakeholders,
                   returned, stakeholders, outreach_messages, usage_reports,
                   events_dir, associations_dir, gatherings, analyzed_gatherings,
                   all_companies, qualified_companies>>

\* the qualification step with a denied check that still writes a usage record
QualifyCompany_logs_on_denial ==
    /\ pc = "qualify"
    /\ loop_index <= Len(unique_companies)
    /\ LET company == unique_companies[loop_index] IN
       IF ~is_budget_available(ledger, "company_analysis", QualifyEstimate(company))
       THEN /\ qualified_companies' = Append(qualified_companies, company)
            /\ ledger' = log_token_usage(ledger, "company_analysis", 0)
            /\ UNCHANGED request
       ELSE \E reply \in QualificationReplies :
            /\ request' = OpenAIRequest("company_analysis", QualificationModel(company))
            /\ ledger' = log_token_usage(ledger, request'.module, ReplyCost(reply))
            /\ qualified_companies' =
                   Append(qualified_companies, qualify_company(company, reply))
    /\ loop_index' = loop_index + 1
    /\ UNCHANGED <<dirs_read, budget_check, scoreVars, content, attempt, retry_delay, sleeps, call_result, error, pc, companies_dir,
                   stakeholders_dir, outreach_dir, companies, all_stakeholders,
                   returned, stakeholders, outreach_messages, usage_reports,
                   events_dir, associations_dir, gatherings, analyzed_gatherings,
                   all_companies, unique_companies>>

\* run_company_analysis, step 3: one iteration of the loop
QualifyCompany ==
    /\ pc = "qualify"
    /\ loop_index <= Len(unique_companies)
    /\ LET company == unique_companies[loop_index] IN
       IF ~is_budget_available(ledger, "company_analysis", QualifyEstimate(company))
       THEN /\ qualified_companies' = Append(qualified_companies, company)
            /\ UNCHANGED <<ledger, request>>
       ELSE \E reply \in QualificationReplies :
            /\ request' = OpenAIRequest("company_analysis", QualificationModel(company))
            /\ ledger' = log_token_usage(ledger, request'.module, ReplyCost(reply))
            /\ qualified_companies' =
                   Append(qualified_companies, qualify_company(company, reply))
    /\ loop_index' = loop_index + 1
    /\ UNCHANGED <<dirs_read, budget_check, scoreVars, content, attempt, retry_delay, sleeps, call_result, error, pc, companies_dir,
                   stakeholders_dir, outreach_dir, companies, all_stakeholders,
                   returned, stakeholders, outreach_messages, usage_reports,
                   events_dir, associations_dir, gatherings, analyzed_gatherings,
                   all_companies, unique_companies>>

\* run_company_analysis, steps 4 and 5 and the usage report
PrioritizeAndSaveCompanies ==
    /\ pc = "qualify"
    /\ loop_index > Len(unique_companies)
    /\ qualified_companies' = prioritize_companies(qualified_companies)
    /\ companies_dir' = save_company_data(companies_dir, qualified_companies')
    /\ IF UsageReportRaises(ledger)
       THEN pc' = "raised" /\ UNCHANGED usage_reports
       ELSE pc' = "company_done" /\ usage_reports' = usage_reports + 1
    /\ loop_index' = 0
    /\ UNCHANGED <<dirs_read, ledgerVars, scoreVars, content, callVars,
                   stakeholders_dir, outreach_dir, companies, all_stakeholders,
                   returned, stakeholders, outreach_messages,
                   events_dir, associations_dir, gatherings, analyzed_gatherings,
                   all_companies, unique_companies>>

CompanyNext ==
    \/ LoadGatherings
    \/ DiscoverCompanies
    \/ MergeCompanies
    \/ QualifyCompany
    \/ PrioritizeAndSaveCompanies

SpecCompany == CompanyInit /\ [][CompanyNext]_vars

\* the name of a company as the merge compares it: trimmed, lower case
C12_Name(company) == lower(strip(company.name))

C12_Merged == pc \in {"qualify", "company_done", "raised"}

\* C12: the merge of the companies found across gatherings keeps exactly one
\* company per case-insensitive trimmed name, the kept one is a discovered
\* company with the highest initial qualification_score of its name, and
\* merging the merged list again changes nothing.
C12_OnePerNameWithMaxScore ==
    C12_Merged =>
        /\ \A i, j \in DOMAIN unique_companies :
              i # j => C12_Name(unique_companies[i]) # C12_Name(unique_companies[j])
        /\ {C12_Name(unique_companies[i]) : i \in DOMAIN unique_companies}
              = {C12_Name(all_companies[k]) : k \in DOMAIN all_companies}
        /\ \A i \in DOMAIN unique_companies :
              /\ \E k \in DOMAIN all_companies : all_companies[k] = unique_companies[i]
              /\ \A k \in DOMAIN all_companies :
                    C12_Name(all_companies[k]) = C12_Name(unique_companies[i])
                    => all_companies[k].qualification_score
                          <= unique_companies[i].qualification_score
        /\ deduplicate(unique_companies) = unique_companies

\* two gatherings named the same company in different spellings and the
\* later, higher-scored spelling replaced the earlier one
C12_Witness ==
    /\ C12_Merged
    /\ Len(all_companies) = 4
    /\ Len(unique_companies) = 2
    /\ unique_companies[1].name = " acme signs "
    /\ unique_companies[1].qualification_score = 85

(***************************************************************************)
(* prioritize_gatherings and prioritize_stakeholders applied to drawn      *)
(* lists                                                                    *)
(***************************************************************************)

\* longest list of scores drawn
MaxList == 3

\* relevance and decision-maker scores drawn, in tenths
SortScores == {59, 60, 79, 80, 83}

ScoreLists == UNION {[1..n -> SortScores] : n \in 0..MaxList}

\* a stakeholder as identify_stakeholders_for_company returns it
ScoredStakeholder(n, score) ==
    [id |-> StakeholderId(n),
     company_id |-> "c1",
     company_name |-> "Acme Signs",
     title |-> "Buyer",
     decision_maker_score |-> score,
     decision_maker_rationale |-> "",
     priority |-> "medium",
     customer_segment |-> "",
     sales_navigator_query |-> ""]

SortInit ==
    /\ ledger = <<>>
    /\ budget_check = NoCheck
    /\ ScoreIdle
    /\ pc = "sort"
    /\ companies_dir = <<>>
    /\ stakeholders_dir = <<>>
    /\ outreach_dir = <<>>
    /\ companies = <<>>
    /\ returned = NoReturn
    /\ stakeholders = <<>>
    /\ outreach_messages = <<>>
    /\ loop_index = 0
    /\ usage_reports = 0
    /\ content = ""
    /\ events_dir = <<>>
    /\ associations_dir = <<>>
    /\ analyzed_gatherings = <<>>
    /\ all_companies = <<>>
    /\ unique_companies = <<>>
    /\ qualified_companies = <<>>
    /\ attempt = 0
    /\ retry_delay = 0
    /\ sleeps = <<>>
    /\ call_result = NoResult
    /\ request = NoRequest
    /\ error = ""
    /\ dirs_read = {}
    /\ \E scores \in ScoreLists :
         /\ gatherings =
               [i \in DOMAIN scores |->
                   SeedGathering("Gathering " \o ToString(i), "event", scores[i])]
         /\ all_stakeholders =
               [i \in DOMAIN scores |-> ScoredStakeholder(i, scores[i])]

\* prioritized_gatherings = prioritize_gatherings(gatherings)
PrioritizeGatherings ==
    /\ pc = "sort"
    /\ analyzed_gatherings' = prioritize_gatherings(gatherings)
    /\ pc' = "sorted_gatherings"
    /\ UNCHANGED <<dirs_read, ledgerVars, scoreVars, content, callVars, companies_dir,
                   stakeholders_dir, outreach_dir, companies, all_stakeholders,
                   returned, stakeholders, outreach_messages, loop_index,
                   usage_reports, events_dir, associations_dir, gatherings,
                   all_companies, unique_companies, qualified_companies>>

\* prioritized_stakeholders = prioritize_stakeholders(all_stakeholders)
PrioritizeStakeholders ==
    /\ pc = "sorted_gatherings"
    /\ stakeholders' = prioritize_stakeholders(all_stakeholders)
    /\ pc' = "sorted"
    /\ UNCHANGED <<dirs_read, ledgerVars, scoreVars, content, callVars, upVars, companies_dir,
                   stakeholders_dir, outreach_dir, companies, all_stakeholders,
                   returned, outreach_messages, loop_index, usage_reports>>

SortNext ==
    \/ PrioritizeGatherings
    \/ PrioritizeStakeholders

SpecSort == SortInit /\ [][SortNext]_vars

\* the bijections of 1..n
C13_Perms(n) ==
    { p \in [1..n -> 1..n] : \A i, j \in 1..n : i # j => p[i] # p[j] }

\* output is input rearranged, each element unchanged apart from its priority
C13_Permutation(input, output) ==
    /\ Len(output) = Len(input)
    /\ \E p \in C13_Perms(Len(input)) :
         \A i \in DOMAIN input :
            [output[i] EXCEPT !.priority = ""] = [input[p[i]] EXCEPT !.priority = ""]

C13_Band(score) ==
    IF score < 60 THEN "low" ELSE IF score < 80 THEN "medium" ELSE "high"

\* C13: prioritize_gatherings and prioritize_stakeholders return a
\* permutation of their input, sorted non-increasing by score, each element
\* labelled high from 8.0 up, medium from 6.0 up and low below (8.3 is high,
\* 6.0 medium, 5.9 low).
C13_SortedAndBanded ==
    /\ pc \in {"sorted_gatherings", "sorted"} =>
         /\ C13_Permutation(gatherings, analyzed_gatherings)
         /\ \A i, j \in DOMAIN analyzed_gatherings :
               i < j => analyzed_gatherings[i].relevance_score
                           >= analyzed_gatherings[j].relevance_score
         /\ \A i \in DOMAIN analyzed_gatherings :
               analyzed_gatherings[i].priority
                  = C13_Band(analyzed_gatherings[i].relevance_score)
    /\ pc = "sorted" =>
         /\ C13_Permutation(all_stakeholders, stakeholders)
         /\ \A i, j \in DOMAIN stakeholders :
               i < j => stakeholders[i].decision_maker_score
                           >= stakeholders[j].decision_maker_score
         /\ \A i \in DOMAIN stakeholders :
               stakeholders[i].priority
                  = C13_Band(stakeholders[i].decision_maker_score)

\* both functions reordered a list holding 5.9, 8.3 and 6.0
C13_Witness ==
    /\ pc = "sorted"
    /\ Len(gatherings) = 3
    /\ [i \in 1..3 |-> gatherings[i].relevance_score] = <<59, 83, 60>>
    /\ [i \in 1..3 |-> analyzed_gatherings[i].priority] = <<"high", "medium", "low">>
    /\ [i \in 1..3 |-> stakeholders[i].decision_maker_score] = <<83, 60, 59>>

(***************************************************************************)
(* The four stage scripts, each started on the data its predecessor left   *)
(***************************************************************************)

StagesInit == EventInit \/ CompanyInit \/ PipeInit

StagesNext == EventNext \/ CompanyNext \/ PipeNext

SpecStages == StagesInit /\ [][StagesNext]_vars

\* C14: a denied budget check is a gate.  analyze_gathering_relevance,
\* qualify_company and generate_sales_navigator_query then make no call,
\* append no ledger record and hand back the entity they were given
\* unchanged, and the loop of the stage goes on to the next entity.
C14_DeniedCheckSkipsCall ==
    [][/\ (/\ pc = "analyze"
           /\ loop_index <= Len(LimitedGatherings)
           /\ ~is_budget_available(ledger, "event_research", AnalyzeEstimate))
          => /\ ledger' = ledger
             /\ analyzed_gatherings'
                   = Append(analyzed_gatherings, LimitedGatherings[loop_index])
             /\ pc' = "analyze"
             /\ loop_index' = loop_index + 1
       /\ (/\ pc = "qualify"
           /\ loop_index <= Len(unique_companies)
           /\ ~is_budget_available(ledger, "company_analysis",
                 IF unique_companies[loop_index].qualification_score >= 60
                 THEN 10 ELSE 2))
          => /\ ledger' = ledger
             /\ qualified_companies'
                   = Append(qualified_companies, unique_companies[loop_index])
             /\ pc' = "qualify"
             /\ loop_index' = loop_index + 1
       /\ (/\ pc = "queries"
           /\ loop_index <= Len(all_stakeholders)
           /\ ~is_budget_available(ledger, "stakeholder_identification",
                                   QueryEstimate))
          => /\ ledger' = ledger
             /\ all_stakeholders' = all_stakeholders
             /\ pc' = "queries"
             /\ loop_index' = loop_index + 1]_vars

\* the query of a stakeholder scored 7.5 or more, of a loaded company, was
\* skipped because the check was denied, after an earlier query was made
C14_Witness ==
    /\ pc = "queries"
    /\ loop_index > 2
    /\ ~is_budget_available(ledger, "stakeholder_identification", QueryEstimate)
    /\ all_stakeholders[loop_index - 1].decision_maker_score >= 75
    /\ all_stakeholders[loop_index - 1].sales_navigator_query = ""
    /\ all_stakeholders[loop_index - 2].sales_navigator_query = "Title AND Company"
    /\ \E c \in DOMAIN companies :
          companies[c].id = all_stakeholders[loop_index - 1].company_id

(***************************************************************************)
(* src/llm/llm_client.py: call_openai_api and query_perplexity             *)
(***************************************************************************)

max_retries == 3

\* the calls the stages make: provider and module argument
Requests ==
    { [provider |-> "perplexity", module |-> "event_research"],
      [provider |-> "openai", module |-> "event_research"],
      [provider |-> "openai", module |-> "company_analysis"],
      [provider |-> "openai", module |-> "stakeholder_identification"],
      [provider |-> "openai", module |-> "outreach_generation"] }

\* str(e) of the exceptions an attempt can end in
Failures(provider) ==
    IF provider = "openai"
    THEN {"Connection error.", "Rate limit reached"}
    ELSE {"Connection refused", "Perplexity API returned status code 500: "}

\* total_cost of the record of a call that succeeded
SuccessCost(provider) == IF provider = "perplexity" THEN PerplexityCost ELSE CallCost

\* total_cost of the error record: no tokens for OpenAI, the per-request
\* price for Perplexity
ErrorCost(provider) == IF provider = "perplexity" THEN PerplexityCost ELSE 0

\* retry_delay *= 2 without the doubling
NextDelay_constant(delay) == delay

\* retry_delay *= 2
NextDelay(delay) == delay * 2

\* ledgers a call can start on
CallPriorLedgers ==
    { <<>>,
      << [module |-> "general", total_cost_usd |-> 4000] >>,
      << [module |-> "event_research", total_cost_usd |-> 1000],
         [module |-> "company_analysis", total_cost_usd |-> 1000] >> }

CallInit ==
    /\ ledger \in CallPriorLedgers
    /\ budget_check = NoCheck
    /\ ScoreIdle
    /\ pc = "call"
    /\ DownstreamIdle
    /\ content = ""
    /\ events_dir = <<>>
    /\ associations_dir = <<>>
    /\ gatherings = <<>>
    /\ analyzed_gatherings = <<>>
    /\ all_companies = <<>>
    /\ unique_companies = <<>>
    /\ qualified_companies = <<>>
    /\ attempt = 0
    /\ retry_delay = 2
    /\ sleeps = <<>>
    /\ call_result = NoResult
    /\ request \in Requests
    /\ error = ""
    /\ dirs_read = {}

\* an attempt succeeds: the usage is logged and the reply returned
AttemptSucceeds ==
    /\ pc = "call"
    /\ attempt < max_retries
    /\ ledger' = log_token_usage(ledger, request.module, SuccessCost(request.provider))
    /\ call_result' = [content |-> "reply", raised |-> FALSE,
                       usage |-> ledger'[Len(ledger')]]
    /\ error' = ""
    /\ pc' = "returned"
    /\ UNCHANGED <<dirs_read, budget_check, scoreVars, content, upVars, attempt, retry_delay,
                   sleeps, request, companies_dir, stakeholders_dir, outreach_dir,
                   companies, all_stakeholders, returned, stakeholders,
                   outreach_messages, loop_index, usage_reports>>

\* an attempt before the last one fails: sleep, double the delay, try again
AttemptFailsAndRetries ==
    /\ pc = "call"
    /\ attempt < max_retries - 1
    /\ \E e \in Failures(request.provider) : error' = e
    /\ sleeps' = Append(sleeps, retry_delay)
    /\ retry_delay' = NextDelay(retry_delay)
    /\ attempt' = attempt + 1
    /\ UNCHANGED <<dirs_read, ledgerVars, scoreVars, content, upVars, pipeVars, call_result,
                   request>>

\* the last attempt fails and the error marker is returned without a record
AttemptFailsForGood_unlogged ==
    /\ pc = "call"
    /\ attempt = max_retries - 1
    /\ \E e \in Failures(request.provider) : error' = e
    /\ call_result' = [content |-> "Error: " \o error', raised |-> FALSE,
                       usage |-> NoUsage]
    /\ pc' = "returned"
    /\ UNCHANGED <<dirs_read, ledgerVars, scoreVars, content, upVars, attempt, retry_delay,
                   sleeps, request, companies_dir, stakeholders_dir, outreach_dir,
                   companies, all_stakeholders, returned, stakeholders,
                   outreach_messages, loop_index, usage_reports>>

\* the last attempt fails: the error marker is returned with an error record
AttemptFailsForGood ==
    /\ pc = "call"
    /\ attempt = max_retries - 1
    /\ \E e \in Failures(request.provider) : error' = e
    /\ ledger' = log_token_usage(ledger, request.module, ErrorCost(request.provider))
    /\ call_result' = [content |-> "Error: " \o error', raised |-> FALSE,
                       usage |-> ledger'[Len(ledger')]]
    /\ pc' = "returned"
    /\ UNCHANGED <<dirs_read, budget_check, scoreVars, content, upVars, attempt, retry_delay,
                   sleeps, request, companies_dir, stakeholders_dir, outreach_dir,
                   companies, all_stakeholders, returned, stakeholders,
                   outreach_messages, loop_index, usage_reports>>

CallNext ==
    \/ AttemptSucceeds
    \/ AttemptFailsAndRetries
    \/ AttemptFailsForGood

SpecCall == CallInit /\ [][CallNext]_vars

C16_LedgerAppendOnly ==
    [][/\ Len(ledger') \in {Len(ledger), Len(ledger) + 1}
       /\ SubSeq(ledger', 1, Len(ledger)) = ledger
       /\ get_current_usage(ledger').total_cost_usd
             >= get_current_usage(ledger).total_cost_usd]_vars

\* a stage appended three records behind the two an earlier run had left
C16_Witness ==
    /\ Len(ledger) = 5
    /\ ledger[1] = [module |-> "stakeholder_identification", total_cost_usd |-> 2997]
    /\ ledger[2] = [module |-> "general", total_cost_usd |-> 4000]
    /\ ledger[5].module = "outreach_generation"

\* nothing on disk changes: no entity file, no ledger record, no usage report
C17_NothingWritten ==
    UNCHANGED <<ledger, usage_reports, events_dir, associations_dir,
                companies_dir, stakeholders_dir, outreach_dir>>

\* C17: a stage that finds no usable upstream input (company analysis with
\* no gatherings, stakeholder identification with no companies, outreach
\* generation with no stakeholders left after filtering) returns without
\* raising and writes no entity file, ledger record or usage report.
C17_EmptyInputIsNoOp ==
    [][/\ (pc = "company_stage" /\ pc' # pc /\ gatherings' = <<>>)
          => (C17_NothingWritten /\ pc' = "company_done")
       /\ (pc = "stakeholder_stage" /\ pc' # pc /\ companies' = <<>>)
          => (C17_NothingWritten /\ pc' = "outreach_stage")
       /\ (pc = "outreach_stage" /\ pc' # pc /\ stakeholders' = <<>>)
          => (C17_NothingWritten /\ pc' = "done")]_vars

\* outreach generation returned at once: the only stakeholder on file was
\* filtered out, and no message was written
C17_Witness ==
    /\ pc = "done"
    /\ stakeholders_dir # <<>>
    /\ stakeholders = <<>>
    /\ outreach_messages = <<>>
    /\ outreach_dir = <<>>

\* positions of the four stage scripts
C18_EventPcs == {"event_stage", "analyze"}
C18_CompanyPcs == {"company_stage", "discover", "qualify"}
C18_StakeholderPcs == {"stakeholder_stage", "identify", "queries"}
C18_OutreachPcs == {"generate", "save_outreach"}

\* C18 as the specification states it: every stage reads entity data only
\* from the directory of the stage immediately before it, so outreach
\* generation reads data/stakeholders and nothing else.
C18_ReadsOnlyPrecedingStage ==
    /\ pc \in C18_CompanyPcs \ {"company_stage"}
          => dirs_read \subseteq {"events", "associations"}
    /\ pc \in C18_StakeholderPcs \ {"stakeholder_stage"}
          => dirs_read \subseteq {"companies"}
    /\ pc \in C18_OutreachPcs => dirs_read \subseteq {"stakeholders"}

\* C18: every stage reads entity data only from directories written by
\* earlier stages (company analysis: events and associations; stakeholder
\* identification: companies; outreach generation: stakeholders and, for the
\* company of each stakeholder, companies) and writes entity files only in
\* its own directories; it never writes the directory of another stage.
C18_ReadsUpstreamWritesOwn ==
    /\ [](/\ pc \in C18_EventPcs => dirs_read = {}
          /\ pc \in C18_CompanyPcs
                => dirs_read \subseteq {"events", "associations"}
          /\ pc \in C18_StakeholderPcs \ {"stakeholder_stage"}
                => dirs_read \subseteq {"companies"}
          /\ pc \in C18_OutreachPcs
                => dirs_read \subseteq {"stakeholders", "companies"})
    /\ [][/\ pc \in C18_EventPcs
                => UNCHANGED <<companies_dir, stakeholders_dir, outreach_dir>>
          /\ pc \in C18_CompanyPcs
                => UNCHANGED <<events_dir, associations_dir, stakeholders_dir,
                               outreach_dir>>
          /\ pc \in C18_StakeholderPcs
                => UNCHANGED <<events_dir, associations_dir, companies_dir,
                               outreach_dir>>
          /\ pc \in C18_OutreachPcs \cup {"outreach_stage"}
                => UNCHANGED <<events_dir, associations_dir, companies_dir,
                               stakeholders_dir>>]_vars

\* outreach generation has read a company file and written its own message
C18_Witness ==
    /\ pc = "done"
    /\ dirs_read = {"stakeholders", "companies"}
    /\ outreach_dir # <<>>
    /\ companies_dir # <<>>

RECURSIVE C19_SpentBy(_, _)
\* the cost recorded in the ledger under the modules in the set
C19_SpentBy(records, modules) ==
    IF records = <<>> THEN 0
    ELSE (IF Head(records).module \in modules THEN Head(records).total_cost_usd
          ELSE 0)
         + C19_SpentBy(Tail(records), modules)

C19_Staged ==
    {"event_research", "company_analysis", "stakeholder_identification",
     "outreach_generation"}

\* the answer the ledger contents and the arguments determine: the module
\* stays within its share, or the spend outside the four stage modules
\* leaves at least the estimate of the 40 USD buffer
C19_Answer(records, module, estimated_cost) ==
    LET share == IF module = "event_research" THEN 2000
                 ELSE IF module = "company_analysis" THEN 5000
                 ELSE IF module = "stakeholder_identification" THEN 3000
                 ELSE IF module = "outreach_generation" THEN 6000
                 ELSE IF module = "buffer" THEN 4000
                 ELSE 0
        elsewhere == C19_SpentBy(records, UsageModules(records) \ C19_Staged)
    IN \/ C19_SpentBy(records, {module}) + estimated_cost <= share
       \/ 4000 - elsewhere >= estimated_cost

\* C19: a budget check is a read.  It leaves the ledger as it was, and the
\* answer it gives is the one determined by the records now in the ledger
\* and its two arguments, so every record appended before the check counts
\* and equal ledgers give equal answers.
C19_CheckIsFreshRead ==
    /\ [](budget_check # NoCheck
            => budget_check.available
                 = C19_Answer(ledger, budget_check.module,
                              budget_check.estimated_cost))
    /\ [][(budget_check' # budget_check /\ budget_check' # NoCheck)
            => ledger' = ledger]_vars

\* the check is denied, and it would have been approved before the last
\* record was appended
C19_Witness ==
    /\ budget_check # NoCheck
    /\ ~budget_check.available
    /\ ledger # <<>>
    /\ C19_Answer(SubSeq(ledger, 1, Len(ledger) - 1), budget_check.module,
                  budget_check.estimated_cost)

\* the decision-maker score Stakeholder Identification held in memory for
\* the stakeholder of this id when it saved it
C21_AssignedScore(id) ==
    LET i == CHOOSE i \in DOMAIN all_stakeholders : all_stakeholders[i].id = id
    IN all_stakeholders[i].decision_maker_score

C21_Loaded ==
    /\ pc \in {"generate", "save_outreach", "done"}
    /\ \A i \in DOMAIN stakeholders :
          \E k \in DOMAIN all_stakeholders : all_stakeholders[k].id = stakeholders[i].id

\* C21: outreach generation processes every high stakeholder before every
\* medium one before every low one, and within a tier in non-increasing
\* order of the decision-maker score assigned by stakeholder identification.
C21_ProcessedByTierThenScore ==
    C21_Loaded =>
        \A i, j \in DOMAIN stakeholders :
            i < j =>
               /\ StakeholderRank(stakeholders[i]) <= StakeholderRank(stakeholders[j])
               /\ stakeholders[i].priority = stakeholders[j].priority
                     => C21_AssignedScore(stakeholders[i].id)
                           >= C21_AssignedScore(stakeholders[j].id)

\* C22: a denied budget check never aborts outreach generation: once the
\* loop has handled every stakeholder, some of them with a denied check,
\* run_outreach_generation saves, reports and returns without raising.
C22_DeniedCheckNeverAborts ==
    [][(/\ pc = "save_outreach"
        /\ \E i \in DOMAIN outreach_messages : outreach_messages[i].id = "")
       => pc' = "done"]_vars

\* the reply of the discovery call holds no JSON array that can be
\* extracted: no bracketed span, or a bracketed span that does not parse
C23_NoArray(text) ==
    \/ Find(text, "[", 1) = 0
    \/ Find(text, "]", 1) = 0
    \/ text = "Companies: [{name: Acme Signs, qualification_score: 7}, ...]"

\* C23: when the discovery call was made and no JSON array can be extracted
\* from its reply, discover_companies_for_gathering returns exactly one
\* company, the hardcoded example, never zero.
C23_ExampleCompanyOnParseFailure ==
    [][(pc = "discover" /\ Len(ledger') > Len(ledger) /\ C23_NoArray(content'))
       => /\ Len(all_companies') = Len(all_companies) + 1
          /\ all_companies'[Len(all_companies')].name
                = "Avery Dennison Graphics Solutions"]_vars


(***************************************************************************)
(* src/llm/llm_client.py: log_token_usage, the pricing of a usage record.  *)
(* Prices are in billionths of a dollar, so that a per-1000-token price is *)
(* a whole number per token.                                               *)
(***************************************************************************)

\* config.TOKEN_PRICING: input and output per token, request per call
TOKEN_PRICING ==
    [m \in {"gpt-3.5-turbo", "gpt-4-turbo", "claude-3-opus", "perplexity"} |->
        CASE m = "gpt-3.5-turbo" -> [input |-> 500, output |-> 1500, request |-> 0]
          [] m = "gpt-4-turbo" -> [input |-> 10000, output |-> 30000, request |-> 0]
          [] m = "claude-3-opus" -> [input |-> 15000, output |-> 75000, request |-> 0]
          [] m = "perplexity" -> [input |-> 0, output |-> 0, request |-> 10000000]]

\* TOKEN_PRICING.get(model, TOKEN_PRICING[default]) without the default:
\* an identifier outside the table is priced at nothing
model_pricing_zero_for_unknown(model, default) ==
    IF model \in DOMAIN TOKEN_PRICING THEN TOKEN_PRICING[model]
    ELSE [input |-> 0, output |-> 0, request |-> 0]

\* TOKEN_PRICING.get(model, TOKEN_PRICING[default])
model_pricing(model, default) ==
    IF model \in DOMAIN TOKEN_PRICING THEN TOKEN_PRICING[model]
    ELSE TOKEN_PRICING[default]

\* the branch of the if / elif chain that prices the model
PricingBranch(model) ==
    IF Contains(model, "gpt-") THEN "gpt"
    ELSE IF Contains(model, "claude") THEN "claude"
    ELSE IF Contains(model, "perplexity") THEN "perplexity"
    ELSE "unknown"

input_cost(model, prompt_tokens) ==
    CASE PricingBranch(model) = "gpt"
            -> prompt_tokens * model_pricing(model, "gpt-4-turbo").input
      [] PricingBranch(model) = "claude"
            -> prompt_tokens * model_pricing(model, "claude-3-opus").input
      [] OTHER -> 0

output_cost(model, completion_tokens) ==
    CASE PricingBranch(model) = "gpt"
            -> completion_tokens * model_pricing(model, "gpt-4-turbo").output
      [] PricingBranch(model) = "claude"
            -> completion_tokens * model_pricing(model, "claude-3-opus").output
      [] OTHER -> 0

total_cost(model, prompt_tokens, completion_tokens) ==
    CASE PricingBranch(model) \in {"gpt", "claude"}
            -> input_cost(model, prompt_tokens) + output_cost(model, completion_tokens)
      [] PricingBranch(model) = "perplexity" -> TOKEN_PRICING["perplexity"].request
      [] OTHER -> 0

\* the usage record log_token_usage builds and appends
usage_record(model, prompt_tokens, completion_tokens, module) ==
    [model |-> model,
     prompt_tokens |-> prompt_tokens,
     completion_tokens |-> completion_tokens,
     total_tokens |-> prompt_tokens + completion_tokens,
     input_cost_usd |-> input_cost(model, prompt_tokens),
     output_cost_usd |-> output_cost(model, completion_tokens),
     total_cost_usd |-> total_cost(model, prompt_tokens, completion_tokens),
     module |-> module]

\* model identifiers: the entries of the table, and identifiers outside it
ModelIds ==
    { "gpt-3.5-turbo", "gpt-4-turbo", "claude-3-opus", "perplexity",
      "gpt-4o", "claude-3-haiku", "perplexity-sonar", "mistral-large" }

TokenCounts == {0, 1, 1000, 2500}

PricedRequests ==
    [model : ModelIds, prompt_tokens : TokenCounts,
     completion_tokens : TokenCounts, module : {"general"}]

PricingInit ==
    /\ ledger = <<>>
    /\ budget_check = NoCheck
    /\ ScoreIdle
    /\ pc = "price"
    /\ DownstreamIdle
    /\ content = ""
    /\ events_dir = <<>>
    /\ associations_dir = <<>>
    /\ gatherings = <<>>
    /\ analyzed_gatherings = <<>>
    /\ all_companies = <<>>
    /\ unique_companies = <<>>
    /\ qualified_companies = <<>>
    /\ attempt = 0
    /\ retry_delay = 2
    /\ sleeps = <<>>
    /\ call_result = NoResult
    /\ request \in PricedRequests
    /\ error = ""
    /\ dirs_read = {}

\* log_token_usage: price the call, append the record, return it
LogTokenUsage ==
    /\ pc = "price"
    /\ ledger' = Append(ledger, usage_record(request.model, request.prompt_tokens,
                                             request.completion_tokens,
                                             request.module))
    /\ call_result' = [content |-> "", raised |-> FALSE,
                       usage |-> ledger'[Len(ledger')]]
    /\ pc' = "priced"
    /\ UNCHANGED <<dirs_read, budget_check, scoreVars, content, upVars, attempt,
                   retry_delay, sleeps, request, error, companies_dir,
                   stakeholders_dir, outreach_dir, companies, all_stakeholders,
                   returned, stakeholders, outreach_messages, loop_index,
                   usage_reports>>

PricingNext == LogTokenUsage

SpecPricing == PricingInit /\ [][PricingNext]_vars

\* the record carries the rates of table entry `entry`
C24_PricedAt(entry) ==
    LET u == call_result.usage IN
    /\ u.input_cost_usd = u.prompt_tokens * TOKEN_PRICING[entry].input
    /\ u.output_cost_usd = u.completion_tokens * TOKEN_PRICING[entry].output
    /\ u.total_cost_usd = u.input_cost_usd + u.output_cost_usd

C24_ZeroCost ==
    LET u == call_result.usage IN
    u.input_cost_usd = 0 /\ u.output_cost_usd = 0 /\ u.total_cost_usd = 0

C24_FlatRate ==
    LET u == call_result.usage IN
    /\ u.input_cost_usd = 0 /\ u.output_cost_usd = 0
    /\ u.total_cost_usd = TOKEN_PRICING["perplexity"].request

\* C24 as stated: the record of a model identifier that is not an entry of
\* the price table has zero input, output and total cost; a chat model of
\* the table is charged its own rates per token; the real-time-search
\* provider is charged the flat per-request rate.
C24_ZeroCostOutsideTable ==
    pc = "priced" =>
        /\ request.model \notin DOMAIN TOKEN_PRICING => C24_ZeroCost
        /\ request.model \in {"gpt-3.5-turbo", "gpt-4-turbo", "claude-3-opus"}
              => C24_PricedAt(request.model)
        /\ request.model = "perplexity" => C24_FlatRate

\* C24 (amended): the record has zero cost exactly for identifiers that
\* contain none of "gpt-", "claude" and "perplexity"; an identifier outside
\* the table that contains "gpt-" is charged the gpt-4-turbo rates, one that
\* contains "claude" the claude-3-opus rates, and one that contains
\* "perplexity" the flat per-request rate; the entries of the table are
\* charged their own rates.
C24_FamilyDefaultPricing ==
    pc = "priced" =>
        LET m == request.model IN
        /\ call_result.usage = ledger[Len(ledger)]
        /\ call_result.usage.model = m
        /\ m \in {"gpt-3.5-turbo", "gpt-4-turbo", "claude-3-opus"} => C24_PricedAt(m)
        /\ (m \notin DOMAIN TOKEN_PRICING /\ Contains(m, "gpt-"))
              => C24_PricedAt("gpt-4-turbo")
        /\ (m \notin DOMAIN TOKEN_PRICING /\ ~Contains(m, "gpt-") /\ Contains(m, "claude"))
              => C24_PricedAt("claude-3-opus")
        /\ (~Contains(m, "gpt-") /\ ~Contains(m, "claude") /\ Contains(m, "perplexity"))
              => C24_FlatRate
        /\ (~Contains(m, "gpt-") /\ ~Contains(m, "claude") /\ ~Contains(m, "perplexity"))
              => C24_ZeroCost

\* a gpt identifier outside the table was charged at the gpt-4-turbo rates,
\* and an identifier of no known family was charged nothing
C24_Witness ==
    /\ pc = "priced"
    /\ request.model = "gpt-4o"
    /\ request.prompt_tokens = 1000
    /\ request.completion_tokens = 1000
    /\ call_result.usage.total_cost_usd = 40000000


\* the criterion scores that qualify_company extracted for a company
C25_Extracted(company) == company.detailed_qualification.criterion_scores

C25_Scored(company) ==
    /\ company.detailed_qualification.present
    /\ DOMAIN C25_Extracted(company) # {}

C25_Consistent(company) ==
    company.lead_priority # ""
       => company.lead_priority = get_lead_priority(company.qualification_score)

\* C25: after qualify_company, whenever at least one criterion score was
\* extracted, qualification_score is calculate_lead_score of the extracted
\* criteria and lead_priority is get_lead_priority of that score; and every
\* company that carries a lead_priority, in memory or in the companies
\* directory, has lead_priority = get_lead_priority(qualification_score).
C25_PriorityFollowsScore ==
    /\ [][(pc = "qualify" /\ Len(qualified_companies') = Len(qualified_companies) + 1)
          => LET company == qualified_companies'[Len(qualified_companies')] IN
             C25_Scored(company)
                => /\ company.qualification_score
                        = calculate_lead_score(C25_Extracted(company))
                   /\ company.lead_priority
                        = get_lead_priority(company.qualification_score)]_vars
    /\ [](/\ \A i \in DOMAIN qualified_companies :
                C25_Consistent(qualified_companies[i])
          /\ \A id \in DOMAIN companies_dir : C25_Consistent(companies_dir[id]))

\* companies of two different priorities were qualified from extracted
\* criteria and saved
C25_Witness ==
    /\ pc = "company_done"
    /\ \E a, b \in DOMAIN companies_dir :
          /\ C25_Scored(companies_dir[a])
          /\ C25_Scored(companies_dir[b])
          /\ companies_dir[a].lead_priority = "exceptional"
          /\ companies_dir[b].lead_priority = "qualified"
          /\ companies_dir[b].qualification_score = 70


\* the model that the premium tier of a stage selects
C26_Premium == "gpt-4-turbo"

\* the item a gated call of the stage at pc is made for is promising
C26_Promising ==
    CASE pc = "qualify" -> unique_companies[loop_index].qualification_score >= 60
      [] pc = "identify" ->
            companies[loop_index].lead_priority \in {"exceptional", "high_priority"}
      [] pc = "generate" -> stakeholders[loop_index].priority = "high"
      [] OTHER -> FALSE

C27_Count(list, company) == Cardinality({ i \in DOMAIN list : list[i] = company })

C27_Permutation(before, after) ==
    /\ Len(after) = Len(before)
    /\ \A i \in DOMAIN before : C27_Count(after, before[i]) = C27_Count(before, before[i])

\* exceptional and high_priority, then qualified, then every other company
C27_Bucket(company) ==
    IF company.lead_priority \in {"exceptional", "high_priority"} THEN 1
    ELSE IF company.lead_priority = "qualified" THEN 2
    ELSE 3

\* C27: prioritize_companies returns a permutation of its input in which the
\* exceptional and high_priority companies come before the qualified ones
\* and these before all others, the companies without lead_priority
\* included, and within each bucket qualification_score does not increase.
C27_BucketsThenScore ==
    [][(pc = "qualify" /\ pc' # "qualify")
       => /\ C27_Permutation(qualified_companies, qualified_companies')
          /\ \A i, j \in DOMAIN qualified_companies' :
                i < j =>
                   LET a == qualified_companies'[i]
                       b == qualified_companies'[j]
                   IN /\ C27_Bucket(a) <= C27_Bucket(b)
                      /\ C27_Bucket(a) = C27_Bucket(b)
                            => a.qualification_score >= b.qualification_score]_vars

\* the prioritized list holds a company of each bucket, and the one without
\* lead_priority is scored higher than the qualified one before it
C27_Witness ==
    /\ pc \in {"company_done", "raised"}
    /\ \E i, j, k \in DOMAIN qualified_companies :
          /\ i < j /\ j < k
          /\ qualified_companies[i].lead_priority = "exceptional"
          /\ qualified_companies[j].lead_priority = "qualified"
          /\ qualified_companies[k].lead_priority = ""
          /\ qualified_companies[k].qualification_score
                > qualified_companies[j].qualification_score


\* C28: log_usage_report succeeds on every ledger, the missing file and the
\* ledger without records included: get_current_usage returns the keys the
\* report reads, the per-module allocation-vs-actual entry among them,
\* whether or not the ledger is empty, and the snapshot is written.
C28_UsageReportOnEveryLedger ==
    [][(usage_reports' # usage_reports \/ error' # error)
       => /\ ReportKeys \subseteq CurrentUsageKeys(ledger)
          /\ usage_reports' = usage_reports + 1
          /\ error' = ""]_vars


(***************************************************************************)
(* The stages together with the call wrappers they use                     *)
(***************************************************************************)

CallsInit == CallInit \/ StagesInit

CallsNext == CallNext \/ StagesNext

SpecCalls == CallsInit /\ [][CallsNext]_vars

\* the module of the is_budget_available check that gates the call of the
\* stage step at pc
C29_GateModule ==
    CASE pc \in {"event_stage", "analyze"} -> "event_research"
      [] pc \in {"discover", "qualify"} -> "company_analysis"
      [] pc \in {"identify", "queries"} -> "stakeholder_identification"
      [] pc = "generate" -> "outreach_generation"
      [] OTHER -> ""

C29_OneRecordAppended ==
    /\ Len(ledger') = Len(ledger) + 1
    /\ SubSeq(ledger', 1, Len(ledger)) = ledger

\* C29: every invocation of call_openai_api or query_perplexity appends
\* exactly one usage record, whatever the number of attempts and whether it
\* ends in success or in the terminal failure, and the record carries the
\* module passed by the caller; in every stage that module is the one of the
\* is_budget_available check that gated the call.
C29_OneRecordPerCallUnderGateModule ==
    /\ [][(pc = "call" /\ pc' = "call") => ledger' = ledger]_vars
    /\ [][(pc = "call" /\ pc' # "call")
          => /\ C29_OneRecordAppended
             /\ ledger'[Len(ledger')].module = request.module]_vars
    /\ [][(C29_GateModule # "" /\ ledger' # ledger)
          => /\ C29_OneRecordAppended
             /\ ledger'[Len(ledger')].module = request'.module
             /\ request'.module = C29_GateModule
             /\ is_budget_available(ledger, C29_GateModule, 0)]_vars

\* an outreach call returned the error marker after three failed attempts
\* and two sleeps, with one record under the caller's module
C29_Witness ==
    /\ pc = "returned"
    /\ sleeps = <<2, 4>>
    /\ error # ""
    /\ request.module = "outreach_generation"
    /\ ledger # <<>>
    /\ ledger[Len(ledger)].module = "outreach_generation"
    /\ call_result.usage = ledger[Len(ledger)]


(***************************************************************************)
(* Outreach generation run on the files an earlier run left behind         *)
(***************************************************************************)

\* stakeholders an earlier run of stakeholder identification saved
SavedStakeholders ==
    { [id |-> "s1", company_id |-> "c1", title |-> "Buyer", priority |-> "high",
       company_name |-> "Acme Signs",
       customer_segment |-> "Large Format Print Providers",
       sales_navigator_query |-> "Title AND Company"],
      [id |-> "s2", company_id |-> "c2", title |-> "Operations Director",
       priority |-> "low", company_name |-> "Beta Wraps",
       customer_segment |-> "Fleet Graphics Specialists",
       sales_navigator_query |-> ""] }

\* the possible contents of data/stakeholders
StakeholderDirs ==
    { save_stakeholder_data(<<>>, list) :
        list \in { <<>> } \cup { <<a>> : a \in SavedStakeholders }
                 \cup { <<a, b>> : a, b \in SavedStakeholders } }

\* run_outreach_generation started on its own: the company files may have
\* been removed since the stakeholders were saved
OutreachInit ==
    /\ ledger \in PriorLedgers
    /\ budget_check = NoCheck
    /\ ScoreIdle
    /\ pc = "outreach_stage"
    /\ companies_dir \in CompanyDirs
    /\ stakeholders_dir \in StakeholderDirs
    /\ outreach_dir = <<>>
    /\ companies = <<>>
    /\ all_stakeholders = <<>>
    /\ returned = NoReturn
    /\ stakeholders = <<>>
    /\ outreach_messages = <<>>
    /\ loop_index = 0
    /\ usage_reports = 0
    /\ RestIdle

PipeRerunInit == PipeInit \/ OutreachInit

SpecPipeRerun == PipeRerunInit /\ [][PipeNext]_vars

\* C30: every stakeholder produced by stakeholder identification carries the
\* id of a company loaded from the companies directory in that run, and
\* every persisted outreach message carries the id of a persisted
\* stakeholder and the company_id of that stakeholder, also when the
\* company record was rebuilt because its file was missing.
C30_ReferentialIntegrity ==
    /\ \A i \in DOMAIN all_stakeholders :
          \E c \in DOMAIN companies :
             companies[c].id = all_stakeholders[i].company_id
    /\ \A m \in DOMAIN outreach_dir :
          /\ outreach_dir[m].stakeholder_id \in DOMAIN stakeholders_dir
          /\ outreach_dir[m].company_id
                = stakeholders_dir[outreach_dir[m].stakeholder_id].company_id

\* a message was persisted for a stakeholder whose company file is missing
C30_Witness ==
    /\ pc \in {"done", "raised"}
    /\ \E m \in DOMAIN outreach_dir :
          /\ outreach_dir[m].company_id \notin DOMAIN companies_dir
          /\ outreach_dir[m].stakeholder_id \in DOMAIN stakeholders_dir

====
